---- MODULE Spec2Model ----
(***************************************************************************)
(* arXivDaily: the paper store (app/services/paper_store.py), the          *)
(* embedding math (app/services/recommendations.py), the favorites store   *)
(* (app/services/favorites.py) and the feed view with its persisted        *)
(* UserFilters (app/feed.py), as a state machine.                          *)
(*                                                                         *)
(* The specifications share the variables:                                 *)
(*   SpecStore      the date-partitioned JSON store under merge_papers;    *)
(*   Spec           the feed views with the settings and the folders;      *)
(*   SpecReading    the feed views with the saved reading position;        *)
(*   SpecFavorites  the folders and the papers put into them;              *)
(*   SpecFolders    the folders' routes: view, list, rename, delete;       *)
(*   SpecLookup     find_by_id and load_date over partitions of any kind;  *)
(*   SpecMath       parse_embedding, _mean_vector and cosine_similarity;   *)
(*   SpecOverlap    a feed view and a save_history, statement by statement;*)
(*   SpecSelection  the feed views with folders created and deleted;       *)
(*   SpecFresh      the same requests from a database just initialized.    *)
(***************************************************************************)
EXTENDS Integers, Sequences, FiniteSets, TLC

VARIABLES
    store,        \* date -> content of the partition file YYYY-MM-DD.json
    lastMerge,    \* what the last merge_papers call read, got and returned
    favorites,    \* table Favorites: id -> row | NoRow
    favPapers,    \* table FavoritePapers: favorite_id -> its paper ids
    userFilters,  \* table UserFilters: user_id -> row | NoRow
    history,      \* table BrowsingHistory: user_id -> row | NoRow
    lastView,     \* what the last feed view read, resolved and returned
    lastCall,     \* the last query or function call: its arguments and result
    inflight      \* the requests handled statement by statement: what each holds

vars ==
    <<store, lastMerge, favorites, favPapers, userFilters, history, lastView, lastCall,
      inflight>>

storeVars == <<store, lastMerge>>
dbVars == <<favorites, favPapers, userFilters, history, lastView, lastCall>>

-----------------------------------------------------------------------------
(* Bounds of the model.                                                    *)

MaxIncoming == 2      \* papers in one merge_papers call
MaxPartition == 1     \* items of a partition file written by the ingestion
MaxMembers == 2       \* papers of one folder

-----------------------------------------------------------------------------
(* Python values.                                                          *)

\* None, and equally a key the dict does not hold: the code reads every
\* field through dict.get, which cannot tell the two apart.
None == "<None>"

\* str.strip() over the strings of the model.
Strip(s) ==
    CASE s = " p1" -> "p1"
      [] s = " AI " -> "AI"
      [] s = " c " -> "c"
      [] s = " " -> ""
      [] OTHER -> s

\* Python truthiness of an optional string.
Truthy(s) == s # None /\ s # ""

RECURSIVE StripNonEmpty(_)
\* [str(t).strip() for t in xs if str(t).strip()]
StripNonEmpty(xs) ==
    IF xs = <<>> THEN <<>>
    ELSE IF Strip(Head(xs)) # ""
         THEN <<Strip(Head(xs))>> \o StripNonEmpty(Tail(xs))
         ELSE StripNonEmpty(Tail(xs))

Range(s) == {s[i] : i \in 1..Len(s)}

-----------------------------------------------------------------------------
(* Paper records.  A raw item of a partition or of an import is             *)
(*   [isdict, id, paper_id, title, tags, embedding, category]              *)
(* title stands for the descriptive string fields, which the store passes   *)
(* through.  tags and embedding carry the shape the JSON value has:         *)
(*   tags:      none | list (items) | jsonlist (a string that decodes to    *)
(*              the list items) | csv (any other string, items are the      *)
(*              pieces between its commas)                                  *)
(*   embedding: none | list (v) | jsonlist (a string that decodes to the    *)
(*              list v) | str (any other string, s) | badlist (a list with  *)
(*              an item that is no number, as ["x"]) | jsonbadlist (a       *)
(*              string that decodes to such a list) | other (a number, an   *)
(*              object)                                                     *)
(* category is the field's text as a sequence of tokens, the separators     *)
(* "," and " " among them.  A number is a fraction <<n, d>> in lowest terms  *)
(* with d > 0.                                                              *)

RECURSIVE GCD(_, _)
GCD(a, b) == IF b = 0 THEN a ELSE GCD(b, a % b)

Abs(x) == IF x < 0 THEN -x ELSE x

Rat(n, d) == LET g == GCD(Abs(n), d) IN <<n \div g, d \div g>>
Num(n) == <<n, 1>>
Zero == Num(0)

RatAdd(a, b) == Rat(a[1] * b[2] + b[1] * a[2], a[2] * b[2])
RatMul(a, b) == Rat(a[1] * b[1], a[2] * b[2])
RatDiv(a, n) == Rat(a[1], a[2] * n)          \* by a count n > 0
RatLess(a, b) == a[1] * b[2] < b[1] * a[2]

Vec2(a, b) == <<Num(a), Num(b)>>

Tags(kind, items) == [kind |-> kind, items |-> items]
Emb(kind, v, s) == [kind |-> kind, v |-> v, s |-> s]

NoTags == Tags("none", <<>>)
NoEmb == Emb("none", <<>>, "")

Paper(id, pid, title, tags, emb, cat) ==
    [isdict |-> TRUE, id |-> id, paper_id |-> pid, title |-> title,
     tags |-> tags, embedding |-> emb, category |-> cat]

\* A JSON item that is no object (a number, a string, a list).
NonDict ==
    [isdict |-> FALSE, id |-> None, paper_id |-> None, title |-> None,
     tags |-> NoTags, embedding |-> NoEmb, category |-> <<>>]

_parse_embedding(raw) ==
    CASE raw.kind = "none" -> NoEmb
      [] raw.kind = "list" -> Emb("list", raw.v, "")
      [] raw.kind = "jsonlist" -> Emb("list", raw.v, "")
      [] raw.kind = "jsonbadlist" -> Emb("badlist", <<>>, "")
      [] OTHER -> raw   \* a list as it is; json.loads raised, or decoded to no list

_normalize_tags(raw) ==
    CASE raw.kind = "none" -> Tags("list", <<>>)
      [] raw.kind = "csv" -> Tags("list", StripNonEmpty(StripNonEmpty(raw.items)))
      [] OTHER -> Tags("list", StripNonEmpty(raw.items))

_normalize_paper(raw) ==
    [raw EXCEPT
        !.id = Strip(IF Truthy(raw.id) THEN raw.id
                     ELSE IF Truthy(raw.paper_id) THEN raw.paper_id
                     ELSE ""),
        !.tags = _normalize_tags(raw.tags),
        !.embedding = _parse_embedding(raw.embedding)]

-----------------------------------------------------------------------------
(* Partition files.                                                        *)

Missing == [state |-> "missing", items |-> <<>>]
Corrupt == [state |-> "corrupt", items |-> <<>>]   \* no JSON: json.load raises
NotList == [state |-> "notlist", items |-> <<>>]   \* JSON that is no list
File(items) == [state |-> "list", items |-> items]

\* json.load(f) raises on the file's text.
JsonLoadRaises(file) == file.state = "corrupt"

\* _load_raw without its try: what json.load raises leaves the function.
_load_raw_NoExcept(file) ==
    IF file.state = "missing" THEN [raised |-> FALSE, data |-> <<>>]
    ELSE IF JsonLoadRaises(file) THEN [raised |-> TRUE, data |-> <<>>]
    ELSE [raised |-> FALSE, data |-> IF file.state = "list" THEN file.items ELSE <<>>]

\* _load_raw(path): whether the call raised, and the list it returned.
_load_raw(file) ==
    IF file.state = "missing" THEN [raised |-> FALSE, data |-> <<>>]
    ELSE IF JsonLoadRaises(file) THEN [raised |-> FALSE, data |-> <<>>]   \* except Exception
    ELSE [raised |-> FALSE, data |-> IF file.state = "list" THEN file.items ELSE <<>>]

RECURSIVE NormalizeDicts(_)
NormalizeDicts(items) ==
    IF items = <<>> THEN <<>>
    ELSE IF Head(items).isdict
         THEN <<_normalize_paper(Head(items))>> \o NormalizeDicts(Tail(items))
         ELSE NormalizeDicts(Tail(items))

load_date(file) == NormalizeDicts(_load_raw(file).data)

\* load_date raises: only what _load_raw lets through.
LoadDateRaises(file) == _load_raw(file).raised

\* The values merge_papers never copies over an existing one:
\* `val is None or val == ""`.
SkippedStr(val) == val = None \/ val = ""
SkippedEmb(val) == val.kind = "none" \/ (val.kind = "str" /\ val.s = "")

\* MergeInto with the tags of both sides kept (the incoming list appended).
MergeInto_AppendTags(old, new) ==
    [isdict |-> TRUE,
     id |-> IF SkippedStr(new.id) THEN old.id ELSE new.id,
     paper_id |-> IF SkippedStr(new.paper_id) THEN old.paper_id ELSE new.paper_id,
     title |-> IF SkippedStr(new.title) THEN old.title ELSE new.title,
     tags |-> Tags("list", old.tags.items \o new.tags.items),
     embedding |-> IF SkippedEmb(new.embedding) THEN old.embedding ELSE new.embedding,
     category |-> IF new.category = <<>> THEN old.category ELSE new.category]

\* merged = existing[pid].copy(); merged[key] = val for every kept val.
\* The tags list is never None nor "", an empty list included.
MergeInto(old, new) ==
    [isdict |-> TRUE,
     id |-> IF SkippedStr(new.id) THEN old.id ELSE new.id,
     paper_id |-> IF SkippedStr(new.paper_id) THEN old.paper_id ELSE new.paper_id,
     title |-> IF SkippedStr(new.title) THEN old.title ELSE new.title,
     tags |-> new.tags,
     embedding |-> IF SkippedEmb(new.embedding) THEN old.embedding ELSE new.embedding,
     category |-> IF new.category = <<>> THEN old.category ELSE new.category]

\* The dict `existing`, as the sequence of its values in insertion order.
IndexOfId(ps, id) ==
    IF \E i \in 1..Len(ps) : ps[i].id = id
    THEN CHOOSE i \in 1..Len(ps) : ps[i].id = id
    ELSE 0

\* DictPut that keeps every record of the file, repeated ids included.
DictPut_Append(ps, p) == Append(ps, p)

\* existing[p["id"]] = p: a repeated key keeps its first position and takes
\* the last value.
DictPut(ps, p) ==
    IF IndexOfId(ps, p.id) = 0 THEN Append(ps, p)
    ELSE [ps EXCEPT ![IndexOfId(ps, p.id)] = p]

RECURSIVE DictOf(_, _)
DictOf(ps, acc) ==
    IF ps = <<>> THEN acc ELSE DictOf(Tail(ps), DictPut(acc, Head(ps)))

RECURSIVE MergeLoop(_, _, _)
\* The loop of merge_papers over new_papers: <<existing, added>>.
MergeLoop(existing, added, new_papers) ==
    IF new_papers = <<>> THEN <<existing, added>>
    ELSE LET normalized == _normalize_paper(Head(new_papers))
             pid == normalized.id
             at == IndexOfId(existing, pid)
         IN  IF pid = "" THEN MergeLoop(existing, added, Tail(new_papers))
             ELSE IF at # 0
                  THEN MergeLoop([existing EXCEPT ![at] = MergeInto(existing[at], normalized)],
                                 added, Tail(new_papers))
                  ELSE MergeLoop(Append(existing, normalized), added + 1, Tail(new_papers))

\* merge_papers(date, new_papers): <<the file written, the count returned>>.
merge_papers(file, new_papers) ==
    LET r == MergeLoop(DictOf(load_date(file), <<>>), 0, new_papers)
    IN  <<File(r[1]), r[2]>>

-----------------------------------------------------------------------------
(* The papers the model draws from.                                        *)

CatAI == <<"cs.AI">>
CatMulti == <<"cs.CV", ",", " ", "cs.AI">>

PaperA == Paper("p1", None, "A", Tags("list", <<" AI ">>), Emb("list", Vec2(1, 0), ""), CatAI)
\* the same id with every other field empty or absent
PaperA0 == Paper(" p1", None, "", NoTags, NoEmb, <<>>)
\* the same id again, with another title, a comma-separated tags string and
\* an empty embedding string
PaperA1 == Paper("p1", None, "B", Tags("csv", <<"NLP", " ">>), Emb("str", <<>>, ""), <<>>)
PaperB == Paper(None, "p2", "B", Tags("jsonlist", <<"NLP", "AI">>),
                Emb("jsonlist", Vec2(0, 1), ""), CatMulti)
\* a record without id and paper_id
PaperNoId == Paper(None, None, "A", Tags("list", <<"AI">>), NoEmb, CatAI)

ImportItems == {PaperA, PaperA0, PaperB, PaperNoId}
RawItems == ImportItems \cup {NonDict}

SeqsUpTo(S, n) == UNION {[1..k -> S] : k \in 0..n}

Dates == {"2024-01-01", "2024-01-02"}

\* The partition the merges of SpecStore go to; merge_papers reads and
\* writes the file of its date_val only.
MergeDate == "2024-01-01"

\* Partitions as the ingestion leaves them: short ones of every shape, and
\* some that repeat an id or hold a record of each kind.
InitFiles ==
    {Missing, Corrupt}
    \cup {File(items) : items \in SeqsUpTo(RawItems, MaxPartition)}
    \cup {File(<<PaperA, PaperA1>>), File(<<PaperNoId, PaperA, PaperNoId>>),
          File(<<PaperA1, PaperB>>)}

NoMerge ==
    [done |-> FALSE, date |-> MergeDate, incoming |-> <<>>, before |-> Missing,
     added |-> 0, repeat |-> FALSE]

\* No feed view since the last change of the state.
NoView == [done |-> FALSE, user |-> 0]

\* No query or function call in the last step.
NoCall == [op |-> "none"]

\* No request is handled statement by statement.
NoRequests == [view |-> [pc |-> "none"], history |-> [pc |-> "none"]]

InitStore ==
    /\ store \in {[d \in Dates |-> IF d = MergeDate THEN f ELSE Missing] : f \in InitFiles}
    /\ lastMerge = NoMerge
    /\ favorites = <<>>
    /\ favPapers = <<>>
    /\ userFilters = <<>>
    /\ history = <<>>
    /\ lastView = NoView
    /\ lastCall = NoCall
    /\ inflight = NoRequests

\* merge_papers(date, new_papers), by the ingestion.
Merge(date, new_papers) ==
    LET r == merge_papers(store[date], new_papers)
    IN  /\ store' = [store EXCEPT ![date] = r[1]]
        /\ lastMerge' = [done |-> TRUE, date |-> date, incoming |-> new_papers,
                         before |-> store[date], added |-> r[2],
                         repeat |-> /\ lastMerge.done
                                    /\ lastMerge.date = date
                                    /\ lastMerge.incoming = new_papers]
        /\ UNCHANGED <<dbVars, inflight>>

NextStore ==
    \E new_papers \in SeqsUpTo(ImportItems, MaxIncoming) : Merge(MergeDate, new_papers)

SpecStore == InitStore /\ [][NextStore]_vars

-----------------------------------------------------------------------------
(* Properties of merge_papers (SpecStore).                                *)

\* The last call's view of the partition before it, its normalized input
\* and the partition it wrote.
MergeExisting == DictOf(load_date(lastMerge.before), <<>>)
MergeIncoming == [i \in 1..Len(lastMerge.incoming) |-> _normalize_paper(lastMerge.incoming[i])]
MergeStored == store[lastMerge.date].items

IdsOf(ps) == {ps[i].id : i \in 1..Len(ps)}

EmptyStr(val) == val = None \/ val = ""
EmptyTags(val) == val.items = <<>>
EmptyEmb(val) ==
    \/ val.kind = "none"
    \/ (val.kind = "str" /\ val.s = "")
    \/ (val.kind = "list" /\ val.v = <<>>)

\* Field f of the stored paper with e's id is e's, whenever e's value is
\* non-empty and every incoming paper of that id has it empty.
KeepsTitle(e, inc, st) ==
    (~EmptyStr(e.title) /\ \A i \in inc : EmptyStr(i.title)) => st.title = e.title
KeepsTags(e, inc, st) ==
    (~EmptyTags(e.tags) /\ \A i \in inc : EmptyTags(i.tags)) => st.tags = e.tags
KeepsEmbedding(e, inc, st) ==
    (~EmptyEmb(e.embedding) /\ \A i \in inc : EmptyEmb(i.embedding))
        => st.embedding = e.embedding
KeepsCategory(e, inc, st) ==
    (e.category # <<>> /\ \A i \in inc : i.category = <<>>) => st.category = e.category

\* C1: merge_papers is field-preserving: a field (tags and embedding
\* included) of an existing paper that is non-empty, and empty or absent in
\* the incoming papers of the same id, keeps its value in the stored
\* partition.
C1_FieldPreserving ==
    lastMerge.done =>
        \A k \in 1..Len(MergeExisting) :
            LET e == MergeExisting[k]
                inc == {p \in Range(MergeIncoming) : p.id = e.id}
            IN  (e.id # "" /\ inc # {}) =>
                    \E j \in 1..Len(MergeStored) :
                        /\ MergeStored[j].id = e.id
                        /\ KeepsTitle(e, inc, MergeStored[j])
                        /\ KeepsTags(e, inc, MergeStored[j])
                        /\ KeepsEmbedding(e, inc, MergeStored[j])
                        /\ KeepsCategory(e, inc, MergeStored[j])

\* C9: merge_papers is idempotent: a second call in a row with the same date
\* and the same incoming papers leaves the partition as the first call wrote
\* it, and returns 0.
C9_Idempotent ==
    (lastMerge.done /\ lastMerge.repeat) =>
        /\ store[lastMerge.date] = lastMerge.before
        /\ lastMerge.added = 0

\* A repeated call whose papers were merged into existing ones.
C9_Witness ==
    /\ lastMerge.done /\ lastMerge.repeat
    /\ Len(lastMerge.incoming) = MaxIncoming
    /\ \E p \in Range(MergeIncoming) : p.id # "" /\ p.tags.items # <<>>
    /\ \E p \in Range(MergeIncoming) : p.id # "" /\ p.tags.items = <<>>

\* C10: merge_papers never deletes and counts exactly the new ids: on a
\* readable partition every id present before is present after, the stored
\* ids are pairwise distinct, and the count returned is the number of
\* distinct non-empty incoming ids the partition did not hold, by which the
\* number of distinct ids grows.
C10_CountsNewIds ==
    (lastMerge.done /\ lastMerge.before.state # "corrupt") =>
        LET before == IdsOf(load_date(lastMerge.before))
            after == IdsOf(MergeStored)
            new == {id \in IdsOf(MergeIncoming) : id # ""} \ before
        IN  /\ before \subseteq after
            /\ \A i, j \in 1..Len(MergeStored) :
                   MergeStored[i].id = MergeStored[j].id => i = j
            /\ lastMerge.added = Cardinality(new)
            /\ Cardinality(after) = Cardinality(before) + lastMerge.added

\* A merge into a partition that repeated an id, adding a new id and
\* meeting an old one.
C10_Witness ==
    /\ lastMerge.done /\ lastMerge.before.state = "list"
    /\ Len(load_date(lastMerge.before)) > Cardinality(IdsOf(load_date(lastMerge.before)))
    /\ lastMerge.added = 1
    /\ \E p \in Range(MergeIncoming) : p.id \in IdsOf(load_date(lastMerge.before)) /\ p.id # ""

-----------------------------------------------------------------------------
(* Embedding math (app/services/recommendations.py).                       *)

\* parse_embedding raises: float(x) refuses an item of the list, and only
\* json.JSONDecodeError is caught.
ParseEmbeddingRaises(raw) == raw.kind \in {"badlist", "jsonbadlist"}

\* parse_embedding: a list of floats, or None (kind "none"), when it returns.
parse_embedding(raw) ==
    CASE raw.kind = "list" -> Emb("list", raw.v, "")
      [] raw.kind = "jsonlist" -> Emb("list", raw.v, "")
      [] OTHER -> NoEmb

\* `if emb:` for an optional list.
TruthyEmb(emb) == emb.kind = "list" /\ emb.v # <<>>

RECURSIVE VecSum(_, _, _)
\* totals[idx] += float(val) over the vectors of the first one's length
VecSum(vectors, length, totals) ==
    IF vectors = <<>> THEN totals
    ELSE IF Len(Head(vectors)) # length THEN VecSum(Tail(vectors), length, totals)
         ELSE VecSum(Tail(vectors), length,
                     [i \in 1..length |-> RatAdd(totals[i], Head(vectors)[i])])

\* count += 1 for every vector, whatever its length
VecCount_All(vectors, length) == Len(vectors)

RECURSIVE VecCount(_, _)
\* count += 1 over the vectors of the first one's length
VecCount(vectors, length) ==
    IF vectors = <<>> THEN 0
    ELSE (IF Len(Head(vectors)) = length THEN 1 ELSE 0) + VecCount(Tail(vectors), length)

_mean_vector(vectors) ==
    IF vectors = <<>> THEN NoEmb
    ELSE LET length == Len(vectors[1])
             totals == VecSum(vectors, length, [i \in 1..length |-> Zero])
             count == VecCount(vectors, length)
         IN  IF count = 0 THEN NoEmb
             ELSE Emb("list", [i \in 1..length |-> RatDiv(totals[i], count)], "")

RECURSIVE MeanLoop(_, _, _, _)
\* The loop of the copy in recommendations.py over vectors[from..]:
\* <<totals, count>>.
MeanLoop(vectors, length, from, acc) ==
    IF from > Len(vectors) THEN acc
    ELSE IF Len(vectors[from]) # length THEN MeanLoop(vectors, length, from + 1, acc)
    ELSE MeanLoop(vectors, length, from + 1,
                  <<[idx \in 1..length |-> RatAdd(acc[1][idx], vectors[from][idx])],
                    acc[2] + 1>>)

\* _mean_vector of recommendations.py
_mean_vector_recommendations(vectors) ==
    IF vectors = <<>> THEN NoEmb
    ELSE LET length == Len(vectors[1])
             done == MeanLoop(vectors, length, 1, <<[idx \in 1..length |-> Zero], 0>>)
         IN  IF done[2] = 0 THEN NoEmb
             ELSE Emb("list", [idx \in 1..length |-> RatDiv(done[1][idx], done[2])], "")

RECURSIVE Dot(_, _)
Dot(a, b) ==
    IF a = <<>> THEN Zero ELSE RatAdd(RatMul(Head(a), Head(b)), Dot(Tail(a), Tail(b)))

\* cosine_similarity.  A similarity c is held as c * |c|, the square of the
\* cosine with its sign: an order-preserving image of [-1, 1] that needs no
\* square root, with 0, 1 and -1 held as themselves.
cosine_similarity(vec1, vec2) ==
    IF vec1 = <<>> \/ vec2 = <<>> \/ Len(vec1) # Len(vec2) THEN Zero
    ELSE LET dot == Dot(vec1, vec2)
             sq1 == Dot(vec1, vec1)
             sq2 == Dot(vec2, vec2)
         IN  IF sq1 = Zero \/ sq2 = Zero THEN Zero
             ELSE LET den == RatMul(sq1, sq2)
                      num == RatMul(dot, dot)
                  IN  Rat((IF dot[1] < 0 THEN -1 ELSE 1) * num[1] * den[2], num[2] * den[1])

\* An optional similarity: None, or a float.
NoSim == [has |-> FALSE, val |-> Zero]
Sim(val) == [has |-> TRUE, val |-> val]

\* `p.get("similarity") or 0`
SimOrZero(sim) == IF sim.has THEN sim.val ELSE Zero

RECURSIVE MaxScore(_)
\* max(scores) over a non-empty list
MaxScore(scores) ==
    IF Len(scores) = 1 THEN scores[1]
    ELSE LET rest == MaxScore(Tail(scores))
         IN  IF RatLess(Head(scores), rest) THEN rest ELSE Head(scores)

RECURSIVE ScoreSum(_)
ScoreSum(scores) ==
    IF scores = <<>> THEN Zero ELSE RatAdd(Head(scores), ScoreSum(Tail(scores)))

\* attach_similarity scoring against one combined value: the mean score.
ScoreOf_Mean(emb, interest_vectors) ==
    RatDiv(ScoreSum([i \in 1..Len(interest_vectors) |->
                        cosine_similarity(emb, interest_vectors[i])]),
           Len(interest_vectors))

\* max(cosine_similarity(emb, vec) for vec in interest_vectors)
ScoreOf(emb, interest_vectors) ==
    MaxScore([i \in 1..Len(interest_vectors) |->
                 cosine_similarity(emb, interest_vectors[i])])

\* attach_similarity(papers, interest_vectors)
attach_similarity(papers, interest_vectors) ==
    IF interest_vectors = <<>> THEN papers
    ELSE [i \in 1..Len(papers) |->
            LET emb == parse_embedding(papers[i].embedding)
            IN  IF TruthyEmb(emb)
                THEN [papers[i] EXCEPT !.similarity = Sim(ScoreOf(emb.v, interest_vectors))]
                ELSE papers[i]]

-----------------------------------------------------------------------------
(* Dates.  A date is held as its ISO text; the text of a request or of a     *)
(* row may be no date at all.                                               *)

Today == "2024-01-03"
ValidDates == Dates \cup {Today}
BadDate == "garbage"

DateRank(d) ==
    CASE d = "2024-01-01" -> 1
      [] d = "2024-01-02" -> 2
      [] OTHER -> 3

\* _parse_date_value: dt.date.fromisoformat, None for a falsy or malformed
\* value.
_parse_date_value(value) == IF value \in ValidDates THEN value ELSE None

FileAt(d) == IF d \in DOMAIN store THEN store[d] ELSE Missing

\* list_dates(): the dates with a partition file, whatever it holds.
list_dates == {d \in DOMAIN store : store[d].state # "missing"}

latest_date ==
    IF list_dates = {} THEN None
    ELSE CHOOSE d \in list_dates : \A e \in list_dates : DateRank(e) <= DateRank(d)

_latest_pub_date == IF latest_date # None THEN latest_date ELSE Today

RECURSIVE FindInDates_OldestFirst(_, _)
\* FindInDates over list_dates() without reversed().
FindInDates_OldestFirst(dates, pid) ==
    IF dates = {} THEN <<FALSE, NonDict, None>>
    ELSE LET d == CHOOSE x \in dates : \A e \in dates : DateRank(x) <= DateRank(e)
             items == load_date(FileAt(d))
             hits == {i \in 1..Len(items) : items[i].id = pid}
         IN  IF hits # {}
             THEN <<TRUE, items[CHOOSE i \in hits : \A j \in hits : i <= j], d>>
             ELSE FindInDates_OldestFirst(dates \ {d}, pid)

RECURSIVE FindInDates(_, _)
\* find_by_id over the dates left to scan, newest first: <<found, paper, date>>
FindInDates(dates, pid) ==
    IF dates = {} THEN <<FALSE, NonDict, None>>
    ELSE LET d == CHOOSE x \in dates : \A e \in dates : DateRank(e) <= DateRank(x)
             items == load_date(FileAt(d))
             hits == {i \in 1..Len(items) : items[i].id = pid}
         IN  IF hits # {}
             THEN <<TRUE, items[CHOOSE i \in hits : \A j \in hits : i <= j], d>>
             ELSE FindInDates(dates \ {d}, pid)

find_by_id(paper_id) == FindInDates(list_dates, Strip(paper_id))

-----------------------------------------------------------------------------
(* The relational store.  A JSON text column is held as the value it        *)
(* encodes: json.dumps and json.loads are inverse on the lists of strings    *)
(* and integers and on the dict of two lists written here.                   *)

Users == {1, 2}

\* Folder names, in the order of SQLite's BINARY collation.
FolderNames == {"B", "a", "c"}
NameRank(n) == CASE n = "B" -> 1 [] n = "a" -> 2 [] OTHER -> 3

FavRow(u, name, emb) == [user_id |-> u, name |-> name, embedding |-> emb]

FavIdsOf(favs, u) == {f \in DOMAIN favs : favs[f].user_id = u}

RECURSIVE OrderedBy(_, _, _)
\* The ids S as a sequence, smallest rank first, ties by id.
OrderedBy(S, rank, acc) ==
    IF S = {} THEN acc
    ELSE LET x == CHOOSE y \in S :
                     \A z \in S : rank[y] < rank[z] \/ (rank[y] = rank[z] /\ y <= z)
         IN  OrderedBy(S \ {x}, rank, Append(acc, x))

\* list_favorites(user_id): the user's folder ids, ORDER BY name.
list_favorites(favs, u) ==
    LET rank == [f \in FavIdsOf(favs, u) |-> NameRank(favs[f].name)]
    IN  OrderedBy(FavIdsOf(favs, u), rank, <<>>)

NoTagFilters == [whitelist |-> <<>>, blacklist |-> <<>>]

NoFilterRow ==
    [exists |-> FALSE, categories |-> <<>>, tags |-> NoTagFilters, sim_favorites |-> <<>>,
     last_date |-> None, last_paper_id |-> None, last_position |-> 0]

NoHistoryRow == [exists |-> FALSE, paper_id |-> None, date |-> None, position |-> 0]

\* An optional argument: not given (None), or a value.
NotGiven == [given |-> FALSE, val |-> <<>>]
Given(val) == [given |-> TRUE, val |-> val]

_load_filters(uf, u) ==
    IF ~uf[u].exists
    THEN [categories |-> <<>>, tags |-> NoTagFilters, sim_favorites |-> <<>>,
          last_date |-> None, last_paper_id |-> None, last_position |-> 0,
          has_record |-> FALSE]
    ELSE [categories |-> uf[u].categories,
          tags |-> [whitelist |-> StripNonEmpty(uf[u].tags.whitelist),
                    blacklist |-> StripNonEmpty(uf[u].tags.blacklist)],
          sim_favorites |-> uf[u].sim_favorites,
          last_date |-> _parse_date_value(uf[u].last_date),
          last_paper_id |-> uf[u].last_paper_id,
          last_position |-> uf[u].last_position,
          has_record |-> TRUE]

\* _save_filters that leaves the categories of an existing row as they are.
_save_filters_KeepCategories(uf, u, categories, tags, sim_favorites, last_date, last_paper_id, last_position) ==
    LET current == _load_filters(uf, u)
        tags_payload == IF tags.given THEN tags.val ELSE current.tags
    IN  [uf EXCEPT ![u] =
            [exists |-> TRUE,
             categories |-> StripNonEmpty(IF categories.given /\ ~current.has_record
                                          THEN categories.val ELSE current.categories),
             tags |-> [whitelist |-> StripNonEmpty(tags_payload.whitelist),
                       blacklist |-> StripNonEmpty(tags_payload.blacklist)],
             sim_favorites |-> IF sim_favorites.given THEN sim_favorites.val
                               ELSE current.sim_favorites,
             last_date |-> IF last_date = None THEN current.last_date ELSE last_date,
             last_paper_id |-> IF last_paper_id = None THEN current.last_paper_id
                               ELSE last_paper_id,
             last_position |-> IF last_position.given THEN last_position.val
                               ELSE current.last_position]]

\* _save_filters: the full-row upsert of the user's UserFilters row, every
\* argument not given taken from the row as _load_filters reads it.  The
\* ids of sim_favorites reach it as integers and stay as they are.
_save_filters(uf, u, categories, tags, sim_favorites, last_date, last_paper_id, last_position) ==
    LET current == _load_filters(uf, u)
        tags_payload == IF tags.given THEN tags.val ELSE current.tags
    IN  [uf EXCEPT ![u] =
            [exists |-> TRUE,
             categories |-> StripNonEmpty(IF categories.given THEN categories.val
                                          ELSE current.categories),
             tags |-> [whitelist |-> StripNonEmpty(tags_payload.whitelist),
                       blacklist |-> StripNonEmpty(tags_payload.blacklist)],
             sim_favorites |-> IF sim_favorites.given THEN sim_favorites.val
                               ELSE current.sim_favorites,
             last_date |-> IF last_date = None THEN current.last_date ELSE last_date,
             last_paper_id |-> IF last_paper_id = None THEN current.last_paper_id
                               ELSE last_paper_id,
             last_position |-> IF last_position.given THEN last_position.val
                               ELSE current.last_position]]

\* _append_sim_favorite(user_id, favorite_id): list(set(sim_favorites) | {id}),
\* here in ascending order.
_append_sim_favorite(uf, u, favorite_id) ==
    LET filters == _load_filters(uf, u)
        ids == Range(filters.sim_favorites) \cup {favorite_id}
        sim_favs == OrderedBy(ids, [f \in ids |-> f], <<>>)
    IN  _save_filters(uf, u, Given(filters.categories), Given(filters.tags),
                      Given(sim_favs), filters.last_date, filters.last_paper_id,
                      Given(filters.last_position))

-----------------------------------------------------------------------------
(* The favorites store (app/services/favorites.py).  FavoritePapers is held *)
(* per favorite_id: the paper ids of its rows in insertion order.           *)

NextFavId(favs) ==
    IF DOMAIN favs = {} THEN 1
    ELSE 1 + CHOOSE f \in DOMAIN favs : \A g \in DOMAIN favs : g <= f

\* ensure_favorite that inserts without the SELECT.
ensure_favorite_AlwaysInsert(favs, u, name) ==
    LET id == NextFavId(favs)
    IN  <<[f \in DOMAIN favs \cup {id} |->
              IF f = id THEN FavRow(u, name, NoEmb) ELSE favs[f]], id>>

\* ensure_favorite(user_id, name): <<the table, the folder's id>>
ensure_favorite(favs, u, name) ==
    LET existing == {f \in FavIdsOf(favs, u) : favs[f].name = name}
    IN  IF existing # {}
        THEN <<favs, CHOOSE f \in existing : \A g \in existing : f <= g>>
        ELSE LET id == NextFavId(favs)
             IN  <<[f \in DOMAIN favs \cup {id} |->
                       IF f = id THEN FavRow(u, name, NoEmb) ELSE favs[f]], id>>

\* The paper ids of a folder, in the order SELECT returns them.
paper_ids_of(fp, fid) == IF fid \in DOMAIN fp THEN fp[fid] ELSE <<>>

IsMember(fp, fid, pid) == pid \in Range(paper_ids_of(fp, fid))

\* The table's UNIQUE (favorite_id, paper_id): the row to insert meets one
\* that is there.
PairConflict(fp, fid, pid) == IsMember(fp, fid, pid)

\* add_paper_to_favorite as a plain INSERT into a table that takes any row.
add_paper_to_favorite_AlwaysInsert(fp, fid, pid) ==
    <<[f \in DOMAIN fp \cup {fid} |->
          IF f = fid THEN Append(paper_ids_of(fp, fid), pid) ELSE fp[f]], TRUE>>

\* add_paper_to_favorite: INSERT OR IGNORE; <<the table, bool(rowcount)>>
add_paper_to_favorite(fp, fid, pid) ==
    IF PairConflict(fp, fid, pid) THEN <<fp, FALSE>>
    ELSE <<[f \in DOMAIN fp \cup {fid} |->
              IF f = fid THEN Append(paper_ids_of(fp, fid), pid) ELSE fp[f]], TRUE>>

RECURSIVE MemberEmbeddings(_)
\* the embeddings of the papers found that have one
MemberEmbeddings(paper_ids) ==
    IF paper_ids = <<>> THEN <<>>
    ELSE LET found == find_by_id(Head(paper_ids))
             emb == parse_embedding(found[2].embedding)
         IN  (IF found[1] /\ TruthyEmb(emb) THEN <<emb.v>> ELSE <<>>)
             \o MemberEmbeddings(Tail(paper_ids))

\* json.dumps of the mean, as the column holds it
StoredEmbedding(mean_vec) ==
    IF mean_vec.kind = "none" THEN NoEmb ELSE Emb("jsonlist", mean_vec.v, "")

\* recompute_favorite_embedding(favorite_id) raises: parse_embedding does,
\* on the embedding of a member paper.
RecomputeRaises(fp, fid) ==
    \E pid \in Range(paper_ids_of(fp, fid)) :
        /\ find_by_id(pid)[1]
        /\ ParseEmbeddingRaises(find_by_id(pid)[2].embedding)

\* recompute_favorite_embedding(favorite_id): the table with the folder's
\* embedding set to the mean over its members, NULL when there is none.
recompute_favorite_embedding(favs, fp, fid) ==
    LET paper_ids == paper_ids_of(fp, fid)
        mean_vec == IF paper_ids = <<>> THEN NoEmb
                    ELSE _mean_vector(MemberEmbeddings(paper_ids))
    IN  IF fid \in DOMAIN favs
        THEN [favs EXCEPT ![fid].embedding = StoredEmbedding(mean_vec)]
        ELSE favs

\* get_favorite_embeddings for which an empty list selects no folder.
get_favorite_embeddings_SelectedOnly(favs, u, favorite_ids) ==
    LET ids == {f \in FavIdsOf(favs, u) : f \in Range(favorite_ids)}
        rows == OrderedBy(ids, [f \in ids |-> f], <<>>)
        vecs == [i \in 1..Len(rows) |-> parse_embedding(favs[rows[i]].embedding)]
        kept == SelectSeq(vecs, TruthyEmb)
    IN  [i \in 1..Len(kept) |-> kept[i].v]

\* get_favorite_embeddings(user_id, favorite_ids): the embeddings of the
\* user's folders, of those among favorite_ids when the list is not empty
\* (an empty list and None alike select them all).
get_favorite_embeddings(favs, u, favorite_ids) ==
    LET ids == {f \in FavIdsOf(favs, u) : favorite_ids = <<>> \/ f \in Range(favorite_ids)}
        rows == OrderedBy(ids, [f \in ids |-> f], <<>>)
        vecs == [i \in 1..Len(rows) |-> parse_embedding(favs[rows[i]].embedding)]
        kept == SelectSeq(vecs, TruthyEmb)
    IN  [i \in 1..Len(kept) |-> kept[i].v]

-----------------------------------------------------------------------------
(* The feed view (app/feed.py, index).                                     *)

DEFAULT_CATEGORIES == <<"cs.AI", "cs.CL", "cs.CV", "cs.LG">>

\* str.isdigit() and int() over the request values of the model.
IsDigit(t) == t \in {"1", "2", "3", "4", "5"}
ToInt(t) ==
    CASE t = "1" -> 1 [] t = "2" -> 2 [] t = "3" -> 3 [] t = "4" -> 4 [] OTHER -> 5

\* _format_paper: the fields of a view's paper that the pipeline reads.
_format_paper(row) ==
    [id |-> row.id,
     tags |-> StripNonEmpty(row.tags.items),
     category |-> row.category,
     embedding |-> row.embedding,
     similarity |-> NoSim,
     filter_group |-> ""]

\* _split_categories without the split: the field as one code.
_split_categories_Whole(raw) == IF Len(raw) = 1 THEN raw ELSE <<>>

\* _split_categories: re.split(r"[,\s]+", raw), the empty pieces dropped.
_split_categories(raw) == SelectSeq(raw, LAMBDA c : c \notin {",", " "})

\* _classify_tags with the whitelist looked at first.
_classify_tags_WhiteFirst(tag_list, whitelist_tags, blacklist_tags) ==
    IF whitelist_tags # {} /\ Range(tag_list) \cap whitelist_tags # {} THEN "white"
    ELSE IF blacklist_tags # {} /\ Range(tag_list) \cap blacklist_tags # {} THEN "black"
    ELSE "neutral"

_classify_tags(tag_list, whitelist_tags, blacklist_tags) ==
    IF blacklist_tags # {} /\ Range(tag_list) \cap blacklist_tags # {} THEN "black"
    ELSE IF whitelist_tags # {} /\ Range(tag_list) \cap whitelist_tags # {} THEN "white"
    ELSE "neutral"

RECURSIVE InsertDesc_Asc(_, _)
\* InsertDesc with the comparison turned round: smallest similarity first.
InsertDesc_Asc(sorted, x) ==
    IF sorted = <<>> THEN <<x>>
    ELSE IF RatLess(SimOrZero(x.similarity), SimOrZero(Head(sorted).similarity))
         THEN <<x>> \o sorted
         ELSE <<Head(sorted)>> \o InsertDesc_Asc(Tail(sorted), x)

RECURSIVE InsertDesc(_, _)
\* x put behind every paper whose similarity is not smaller
InsertDesc(sorted, x) ==
    IF sorted = <<>> THEN <<x>>
    ELSE IF RatLess(SimOrZero(Head(sorted).similarity), SimOrZero(x.similarity))
         THEN <<x>> \o sorted
         ELSE <<Head(sorted)>> \o InsertDesc(Tail(sorted), x)

RECURSIVE SortInto(_, _)
SortInto(sorted, papers) ==
    IF papers = <<>> THEN sorted
    ELSE SortInto(InsertDesc(sorted, Head(papers)), Tail(papers))

\* list.sort by `similarity or 0`, largest first; the sort is stable.
SortBySimilarity(papers) == SortInto(<<>>, papers)

\* grouped[key].sort(key=_sort_key): by -(similarity or 0), stable.
SortGroup(papers) == SortInto(<<>>, papers)

\* The list as the request gave it, nothing dropped.
Filter_KeepAll(seq, S) == seq

\* [x for x in seq if x in S]
Filter(seq, S) == SelectSeq(seq, LAMBDA x : x \in S)

\* ResolveSimFavorites without the default for a user who has no record.
ResolveSimFavorites_NoDefault(requested, saved, available_ids) ==
    LET req == LET digits == SelectSeq(requested, IsDigit)
               IN  [i \in 1..Len(digits) |-> ToInt(digits[i])]
        sel == IF req = <<>> THEN saved.sim_favorites ELSE req
    IN  Filter(sel, Range(available_ids))

\* ResolveSimFavorites that keeps the ids that are not the user's folders.
ResolveSimFavorites_Unfiltered(requested, saved, available_ids) ==
    LET req == LET digits == SelectSeq(requested, IsDigit)
               IN  [i \in 1..Len(digits) |-> ToInt(digits[i])]
        sel == IF req = <<>> THEN saved.sim_favorites ELSE req
    IN  IF sel = <<>> /\ ~saved.has_record THEN available_ids ELSE sel

\* The similarity source selection of the view: the ids of the request, else
\* the saved ones, the user's own among them; all the user's folders when
\* that leaves none and the user has no record.
ResolveSimFavorites(requested, saved, available_ids) ==
    LET req == LET digits == SelectSeq(requested, IsDigit)
               IN  [i \in 1..Len(digits) |-> ToInt(digits[i])]
        sel == IF req = <<>> THEN saved.sim_favorites ELSE req
        own == Filter(sel, Range(available_ids))
    IN  IF own = <<>> /\ ~saved.has_record THEN available_ids ELSE own

\* The date the view shows.
ResolveDate(date_str, saved, last_history_row) ==
    LET d0 == IF Truthy(date_str) THEN _parse_date_value(date_str) ELSE None
        d1 == IF d0 = None THEN saved.last_date ELSE d0
        d2 == IF d1 = None /\ last_history_row.exists /\ Truthy(last_history_row.date)
              THEN _parse_date_value(last_history_row.date) ELSE d1
    IN  IF d2 = None THEN _latest_pub_date ELSE d2

\* RankAndGroup whose white group takes every paper that meets the
\* whitelist, those labelled black among them.
RankAndGroup_WhiteAlso(rows, selected_categories, tag_filters, interest_vectors) ==
    LET papers0 == [i \in 1..Len(rows) |-> _format_paper(rows[i])]
        papers1 == IF selected_categories = <<>> THEN papers0
                   ELSE SelectSeq(papers0, LAMBDA p :
                            Range(selected_categories) \cap Range(_split_categories(p.category)) # {})
        papers2 == IF interest_vectors # <<>>
                   THEN SortBySimilarity(attach_similarity(papers1, interest_vectors))
                   ELSE papers1
        labelled == [i \in 1..Len(papers2) |->
                        [papers2[i] EXCEPT !.filter_group =
                            _classify_tags(papers2[i].tags, Range(tag_filters.whitelist),
                                           Range(tag_filters.blacklist))]]
        group(key) == SortGroup(SelectSeq(labelled, LAMBDA p : p.filter_group = key))
        white == SortGroup(SelectSeq(labelled, LAMBDA p :
                               Range(p.tags) \cap Range(tag_filters.whitelist) # {}))
    IN  [candidates |-> papers1,
         white |-> white, neutral |-> group("neutral"), black |-> group("black"),
         papers |-> white \o group("neutral") \o group("black")]

\* The papers of the view from the rows of the date to the three groups.
RankAndGroup(rows, selected_categories, tag_filters, interest_vectors) ==
    LET papers0 == [i \in 1..Len(rows) |-> _format_paper(rows[i])]
        papers1 == IF selected_categories = <<>> THEN papers0
                   ELSE SelectSeq(papers0, LAMBDA p :
                            Range(selected_categories) \cap Range(_split_categories(p.category)) # {})
        papers2 == IF interest_vectors # <<>>
                   THEN SortBySimilarity(attach_similarity(papers1, interest_vectors))
                   ELSE papers1
        labelled == [i \in 1..Len(papers2) |->
                        [papers2[i] EXCEPT !.filter_group =
                            _classify_tags(papers2[i].tags, Range(tag_filters.whitelist),
                                           Range(tag_filters.blacklist))]]
        group(key) == SortGroup(SelectSeq(labelled, LAMBDA p : p.filter_group = key))
    IN  [candidates |-> papers1,
         white |-> group("white"), neutral |-> group("neutral"), black |-> group("black"),
         papers |-> group("white") \o group("neutral") \o group("black")]

\* GET / by user u with the query parameters date, category and
\* sim_favorite.
Index(u, date_str, category, sim_favorite) ==
    LET saved_filters == _load_filters(userFilters, u)
        target_date == ResolveDate(date_str, saved_filters, history[u])
        rows == load_date(FileAt(target_date))
        user_favorites == list_favorites(favorites, u)
        selected_categories ==
            Filter(IF category # <<>> THEN category ELSE saved_filters.categories,
                   Range(DEFAULT_CATEGORIES))
        tag_filters == saved_filters.tags
        selected_sim_favorites ==
            ResolveSimFavorites(sim_favorite, saved_filters, user_favorites)
        interest_vectors == get_favorite_embeddings(favorites, u, selected_sim_favorites)
        result == RankAndGroup(rows, selected_categories, tag_filters, interest_vectors)
    IN  /\ userFilters' = _save_filters(userFilters, u, Given(selected_categories),
                                        Given(tag_filters), Given(selected_sim_favorites),
                                        None, None, NotGiven)
        /\ lastView' = [done |-> TRUE, user |-> u,
                        plain |-> category = <<>> /\ sim_favorite = <<>>,
                        sim_requested |-> sim_favorite # <<>>,
                        follows |-> lastView.done /\ lastView.user = u,
                        before |-> userFilters[u],
                        target_date |-> target_date,
                        selected_categories |-> selected_categories,
                        tag_filters |-> tag_filters,
                        selected_sim_favorites |-> selected_sim_favorites,
                        interest_vectors |-> interest_vectors,
                        result |-> result]
        /\ lastCall' = NoCall
        /\ UNCHANGED <<favorites, favPapers, history, storeVars, inflight>>

\* _collect_tag_pool(): every tag of every partition.
_collect_tag_pool ==
    UNION {UNION {Range(p.tags.items) : p \in Range(load_date(store[d]))} : d \in list_dates}

\* POST /settings by user u.  (The language preference it also saves is a
\* column of Users, which no operation here reads.)
SettingsPost(u, category, tag_whitelist, tag_blacklist, sim_favorite) ==
    LET filters == _load_filters(userFilters, u)
        tag_options == _collect_tag_pool \cup Range(filters.tags.whitelist)
                           \cup Range(filters.tags.blacklist)
        selected_categories == Filter(category, Range(DEFAULT_CATEGORIES))
        selected_whitelist == Filter(tag_whitelist, tag_options)
        selected_blacklist == Filter(tag_blacklist, tag_options)
        digits == SelectSeq(sim_favorite, IsDigit)
        selected_sim_favorites ==
            Filter([i \in 1..Len(digits) |-> ToInt(digits[i])],
                   Range(list_favorites(favorites, u)))
    IN  /\ userFilters' = _save_filters(userFilters, u, Given(selected_categories),
                              Given([whitelist |-> selected_whitelist,
                                     blacklist |-> selected_blacklist]),
                              Given(selected_sim_favorites), None, None, NotGiven)
        /\ lastView' = NoView
        /\ lastCall' = [op |-> "settings", user |-> u, category |-> category,
                        tag_whitelist |-> tag_whitelist, tag_blacklist |-> tag_blacklist,
                        tag_options |-> tag_options]
        /\ UNCHANGED <<favorites, favPapers, history, storeVars, inflight>>

\* create_favorite without its _append_sim_favorite.
CreateFavorite_NoAppend(u, name) ==
    IF Strip(name) = ""
    THEN /\ lastView' = NoView
         /\ lastCall' = NoCall
         /\ UNCHANGED <<favorites, favPapers, userFilters, history, storeVars, inflight>>
    ELSE LET r == ensure_favorite(favorites, u, Strip(name))
         IN  /\ favorites' = r[1]
             /\ lastView' = NoView
             /\ lastCall' = [op |-> "create_favorite", user |-> u, name |-> Strip(name),
                             id |-> r[2],
                             existed |-> \E f \in FavIdsOf(favorites, u) :
                                            favorites[f].name = Strip(name)]
             /\ UNCHANGED <<favPapers, userFilters, history, storeVars, inflight>>

\* POST /favorites/create by user u; a blank name is refused.
CreateFavorite(u, name) ==
    IF Strip(name) = ""
    THEN /\ lastView' = NoView
         /\ lastCall' = NoCall
         /\ UNCHANGED <<favorites, favPapers, userFilters, history, storeVars, inflight>>
    ELSE LET r == ensure_favorite(favorites, u, Strip(name))
         IN  /\ favorites' = r[1]
             /\ userFilters' = _append_sim_favorite(userFilters, u, r[2])
             /\ lastView' = NoView
             /\ lastCall' = [op |-> "create_favorite", user |-> u, name |-> Strip(name),
                             id |-> r[2],
                             existed |-> \E f \in FavIdsOf(favorites, u) :
                                            favorites[f].name = Strip(name)]
             /\ UNCHANGED <<favPapers, history, storeVars, inflight>>

RECURSIVE AddLoop(_, _, _, _, _, _)
\* The loop of add_to_favorites over the selected ids: <<Favorites,
\* FavoritePapers, added, raised>> after it.  Every statement commits, so a
\* recomputation that raises leaves the pair it follows in the table.
AddLoop(favs, fp, added, u, paper_id, selected_ids) ==
    IF selected_ids = <<>> THEN <<favs, fp, added, FALSE>>
    ELSE LET fav_id_str == Head(selected_ids)
             fav_id == ToInt(fav_id_str)
         IN  IF ~IsDigit(fav_id_str) \/ fav_id \notin FavIdsOf(favs, u)
             THEN AddLoop(favs, fp, added, u, paper_id, Tail(selected_ids))
             ELSE LET a == add_paper_to_favorite(fp, fav_id, paper_id)
                  IN  IF a[2] /\ RecomputeRaises(a[1], fav_id)
                      THEN <<favs, a[1], added, TRUE>>
                      ELSE IF a[2]
                      THEN AddLoop(recompute_favorite_embedding(favs, a[1], fav_id), a[1],
                                   added + 1, u, paper_id, Tail(selected_ids))
                      ELSE AddLoop(favs, fp, added, u, paper_id, Tail(selected_ids))

\* The decimal text of a folder id.
ToStr(n) ==
    CASE n = 1 -> "1" [] n = 2 -> "2" [] n = 3 -> "3" [] n = 4 -> "4" [] OTHER -> "5"

\* POST /favorites/add by user u.
AddToFavorites(u, paper_id, favorite_ids, new_favorite_name) ==
    IF ~Truthy(paper_id)
    THEN /\ lastView' = NoView
         /\ lastCall' = NoCall
         /\ UNCHANGED <<favorites, favPapers, userFilters, history, storeVars, inflight>>
    ELSE LET new_folder == Strip(new_favorite_name)
             e == IF new_folder # "" THEN ensure_favorite(favorites, u, new_folder)
                  ELSE <<favorites, 0>>
             selected_ids == IF new_folder # "" THEN Append(favorite_ids, ToStr(e[2]))
                             ELSE favorite_ids
             r == AddLoop(e[1], favPapers, 0, u, paper_id, selected_ids)
         IN  /\ favorites' = r[1]
             /\ favPapers' = r[2]
             /\ userFilters' = IF new_folder # ""
                               THEN _append_sim_favorite(userFilters, u, e[2])
                               ELSE userFilters
             /\ lastView' = NoView
             /\ lastCall' = [op |-> "add_to_favorites", user |-> u, paper_id |-> paper_id,
                             selected_ids |-> selected_ids, before |-> favPapers,
                             created |-> e[2], added |-> r[3], raised |-> r[4]]
             /\ UNCHANGED <<history, storeVars, inflight>>

\* save_history that saves an empty category selection with the position.
SaveHistory_ResetCategories(u, paper_id, position, date) ==
    IF ~Truthy(paper_id)
    THEN /\ lastView' = NoView
         /\ lastCall' = NoCall
         /\ UNCHANGED <<favorites, favPapers, userFilters, history, storeVars, inflight>>
    ELSE LET date_str == IF Truthy(date) THEN date ELSE Today
         IN  /\ history' = [history EXCEPT ![u] =
                               [exists |-> TRUE, paper_id |-> paper_id, date |-> date_str,
                                position |-> position]]
             /\ userFilters' = _save_filters(userFilters, u, Given(<<>>), NotGiven, NotGiven,
                                             date_str, paper_id, Given(position))
             /\ lastView' = NoView
             /\ lastCall' = [op |-> "save_history", user |-> u, paper_id |-> paper_id,
                             date_str |-> date_str, position |-> position,
                             before |-> userFilters[u]]
             /\ UNCHANGED <<favorites, favPapers, storeVars, inflight>>

\* POST /history by user u with the JSON payload paper_id, position, date.
SaveHistory(u, paper_id, position, date) ==
    IF ~Truthy(paper_id)
    THEN /\ lastView' = NoView
         /\ lastCall' = NoCall
         /\ UNCHANGED <<favorites, favPapers, userFilters, history, storeVars, inflight>>
    ELSE LET date_str == IF Truthy(date) THEN date ELSE Today
         IN  /\ history' = [history EXCEPT ![u] =
                               [exists |-> TRUE, paper_id |-> paper_id, date |-> date_str,
                                position |-> position]]
             /\ userFilters' = _save_filters(userFilters, u, NotGiven, NotGiven, NotGiven,
                                             date_str, paper_id, Given(position))
             /\ lastView' = NoView
             /\ lastCall' = [op |-> "save_history", user |-> u, paper_id |-> paper_id,
                             date_str |-> date_str, position |-> position,
                             before |-> userFilters[u]]
             /\ UNCHANGED <<favorites, favPapers, storeVars, inflight>>

-----------------------------------------------------------------------------
(* The feed's world: two partitions, and a database that is either new or   *)
(* older than the UserFilters table (apply_light_migrations creates the      *)
(* table for such a database), its folders without a UserFilters row.        *)

Feed1 == Paper("p1", None, "A", Tags("list", <<"AI">>), Emb("list", Vec2(1, 0), ""), CatAI)
Feed2 == Paper("p2", None, "B", Tags("list", <<"NLP">>), Emb("jsonlist", Vec2(0, 1), ""),
               CatMulti)
Feed3 == Paper("p3", None, "A", Tags("list", <<"AI", "NLP">>), Emb("list", Vec2(3, 1), ""),
               <<"cs.CV">>)
Feed4 == Paper("p4", None, "B", NoTags, NoEmb, <<>>)
Feed5 == Paper("p5", None, "A", Tags("list", <<"NLP">>), Emb("list", Vec2(1, 2), ""), CatAI)

FeedStore ==
    [d \in Dates |-> IF d = "2024-01-02" THEN File(<<Feed4, Feed2, Feed1, Feed3>>)
                     ELSE File(<<Feed5, Feed1>>)]

NewDatabase ==
    [favorites |-> <<>>, favPapers |-> <<>>]

\* Folders 1 and 3 are user 1's, folder 2 is user 2's; each holds one paper
\* and its embedding.
OlderDatabase ==
    [favorites |-> [f \in {1, 2, 3} |->
                       CASE f = 1 -> FavRow(1, "a", Emb("jsonlist", Vec2(1, 0), ""))
                         [] f = 2 -> FavRow(2, "a", Emb("jsonlist", Vec2(3, 1), ""))
                         [] OTHER -> FavRow(1, "B", Emb("jsonlist", Vec2(0, 1), ""))],
     favPapers |-> [f \in {1, 2, 3} |->
                       CASE f = 1 -> <<"p1">> [] f = 2 -> <<"p3">> [] OTHER -> <<"p2">>]]

\* The users whose requests the model follows; the rows of the other user
\* are there to be left alone.
Requesters == {1}

DateParams == {None, "2024-01-01"}
CategoryParams == {<<>>, <<"cs.AI", "bogus">>}
SimParams == {<<>>, <<"1">>, <<"3", "2", "x">>}
TagParams == {<<<<>>, <<>>>>, <<<<"AI">>, <<"NLP">>>>, <<<<"AI", "zzz">>, <<"AI">>>>}
NameParams == {"", "a", " c "}
PaperParams == {None, "p1", "p2"}

Init ==
    /\ store = FeedStore
    /\ lastMerge = NoMerge
    /\ \E db \in {NewDatabase, OlderDatabase} :
           /\ favorites = db.favorites
           /\ favPapers = db.favPapers
    /\ userFilters = [u \in Users |-> NoFilterRow]
    /\ history = [u \in Users |-> NoHistoryRow]
    /\ lastView = NoView
    /\ lastCall = NoCall
    /\ inflight = NoRequests

\* The feed with its settings and folders.
Next ==
    \E u \in Requesters :
        \/ \E d \in DateParams, c \in CategoryParams, sf \in SimParams : Index(u, d, c, sf)
        \/ \E c \in CategoryParams, t \in TagParams, sf \in SimParams :
               SettingsPost(u, c, t[1], t[2], sf)
        \/ \E n \in NameParams : CreateFavorite(u, n)

Spec == Init /\ [][Next]_vars

\* The feed with the reading position.
HistoryDates == {None, "2024-01-01", BadDate}

NextReading ==
    \E u \in Requesters :
        \/ \E d \in DateParams, c \in CategoryParams, sf \in SimParams : Index(u, d, c, sf)
        \/ \E p \in PaperParams, d \in HistoryDates : SaveHistory(u, p, 3, d)
        \/ \E n \in NameParams : CreateFavorite(u, n)

SpecReading == Init /\ [][NextReading]_vars

-----------------------------------------------------------------------------
(* Properties of the feed view (Spec, SpecReading).  After a view, lastView *)
(* holds what it read and returned; Favorites is as the view saw it.        *)

ViewPapers == lastView.result.papers

HasEmbedding(p) == TruthyEmb(parse_embedding(p.embedding))

\* The embeddings of the folders among ids that have one.
VectorsOf(ids) ==
    {parse_embedding(favorites[f].embedding).v :
        f \in {g \in ids : TruthyEmb(parse_embedding(favorites[g].embedding))}}

OwnFolders == FavIdsOf(favorites, lastView.user)

\* A view by a user with a record, no sim_favorite in the request and none
\* saved.
EmptySelectionView ==
    /\ lastView.done
    /\ lastView.before.exists
    /\ ~lastView.sim_requested
    /\ lastView.before.sim_favorites = <<>>

\* C2: in a view for a user with a record whose similarity source selection
\* resolves to empty, no similarity is computed: every paper's similarity
\* stays absent, whatever folders with embeddings the user owns.
C2_NoSimilarityForEmptySelection ==
    EmptySelectionView => \A i \in 1..Len(ViewPapers) : ~ViewPapers[i].similarity.has

\* C2, amended: in such a view the selection stays empty and is saved
\* empty, and similarity is computed against all of the user's folders that
\* have an embedding: a paper's similarity is absent only if the paper has
\* no embedding or none of the user's folders has one.
C2_EmptySelectionUsesAllFolders ==
    EmptySelectionView =>
        /\ lastView.selected_sim_favorites = <<>>
        /\ userFilters[lastView.user].sim_favorites = <<>>
        /\ Range(lastView.interest_vectors) = VectorsOf(OwnFolders)
        /\ \A i \in 1..Len(ViewPapers) :
               ViewPapers[i].similarity.has
                   <=> (HasEmbedding(ViewPapers[i]) /\ VectorsOf(OwnFolders) # {})

C2_Witness ==
    /\ EmptySelectionView
    /\ \E i \in 1..Len(ViewPapers) : ViewPapers[i].similarity.has
    /\ \E i \in 1..Len(ViewPapers) : ~ViewPapers[i].similarity.has

\* C3: the feed view's save never changes the reading position: after a
\* view, last_date, last_paper_id and last_position of the user's row are
\* what they were before it.
C3_ReadingPositionKept ==
    lastView.done =>
        /\ userFilters[lastView.user].last_date = lastView.before.last_date
        /\ userFilters[lastView.user].last_paper_id = lastView.before.last_paper_id
        /\ userFilters[lastView.user].last_position = lastView.before.last_position

GroupRank(key) == CASE key = "white" -> 1 [] key = "neutral" -> 2 [] OTHER -> 3

\* C4: every feed result is white group, then neutral group, then black
\* group, and within each group the similarities (absent as 0) do not
\* increase from one paper to the next.
C4_GroupOrder ==
    lastView.done =>
        \A i, j \in 1..Len(ViewPapers) :
            i < j =>
                /\ GroupRank(ViewPapers[i].filter_group) <= GroupRank(ViewPapers[j].filter_group)
                /\ ViewPapers[i].filter_group = ViewPapers[j].filter_group
                       => ~RatLess(SimOrZero(ViewPapers[i].similarity),
                                   SimOrZero(ViewPapers[j].similarity))

\* A result with all three groups, one of them holding papers of different
\* similarity that the date's partition lists the other way round.
C4_Witness ==
    /\ lastView.done
    /\ \A key \in {"white", "neutral", "black"} :
           \E i \in 1..Len(ViewPapers) : ViewPapers[i].filter_group = key
    /\ \E i \in 1..Len(ViewPapers) :
           /\ i < Len(ViewPapers)
           /\ ViewPapers[i].filter_group = ViewPapers[i + 1].filter_group
           /\ RatLess(SimOrZero(ViewPapers[i + 1].similarity),
                      SimOrZero(ViewPapers[i].similarity))
           /\ ViewPapers[i].id = "p3" /\ ViewPapers[i + 1].id = "p2"

\* C5: the blacklist has priority: a paper whose tags meet the blacklist is
\* black even if they meet the whitelist too; it is white only if they meet
\* the whitelist and not the blacklist; otherwise it is neutral.
C5_BlacklistPriority ==
    lastView.done =>
        \A i \in 1..Len(ViewPapers) :
            LET tags == Range(ViewPapers[i].tags)
                black == tags \cap Range(userFilters[lastView.user].tags.blacklist) # {}
                white == tags \cap Range(userFilters[lastView.user].tags.whitelist) # {}
            IN  ViewPapers[i].filter_group =
                    IF black THEN "black" ELSE IF white THEN "white" ELSE "neutral"

\* A paper whose tags meet both lists, and one that meets the whitelist only.
C5_Witness ==
    /\ lastView.done
    /\ \E i \in 1..Len(ViewPapers) :
           /\ Range(ViewPapers[i].tags) \cap Range(lastView.tag_filters.blacklist) # {}
           /\ Range(ViewPapers[i].tags) \cap Range(lastView.tag_filters.whitelist) # {}
    /\ \E i \in 1..Len(ViewPapers) : ViewPapers[i].filter_group = "white"

\* s is the largest similarity of emb to a vector of V.
IsMaxSimilarity(s, emb, V) ==
    /\ \E v \in V : s = cosine_similarity(emb, v)
    /\ \A v \in V : ~RatLess(s, cosine_similarity(emb, v))

\* Every paper with an embedding has the largest of its similarities to the
\* vectors V, one by one, and the others have none; no paper has one when V
\* is empty.
SimilarityIsMaxOver(V) ==
    \A i \in 1..Len(ViewPapers) :
        IF V # {} /\ HasEmbedding(ViewPapers[i])
        THEN /\ ViewPapers[i].similarity.has
             /\ IsMaxSimilarity(ViewPapers[i].similarity.val,
                                parse_embedding(ViewPapers[i].embedding).v, V)
        ELSE ~ViewPapers[i].similarity.has

\* C6: a paper with an embedding gets the maximum of its cosine
\* similarities to the interest vectors of the similarity source set, one
\* vector per folder of the set; a paper without embedding, and every paper
\* when the set has no vectors, keeps similarity absent.
C6_MaxOverSourceSet ==
    lastView.done => SimilarityIsMaxOver(VectorsOf(Range(lastView.selected_sim_favorites)))

\* C6, amended: the interest vectors are those of the folders of the
\* similarity source set, or of all the user's folders when the set is
\* empty; the similarity is the maximum over them, absent for a paper
\* without embedding and for every paper when there are no such vectors.
C6_MaxOverInterestVectors ==
    lastView.done =>
        SimilarityIsMaxOver(IF lastView.selected_sim_favorites = <<>>
                            THEN VectorsOf(OwnFolders)
                            ELSE VectorsOf(Range(lastView.selected_sim_favorites)))

\* Two interest vectors, and a paper nearer to the second than to the first.
C6_Witness ==
    /\ lastView.done
    /\ Len(lastView.interest_vectors) = 2
    /\ \E i \in 1..Len(ViewPapers) :
           /\ ViewPapers[i].similarity.has
           /\ RatLess(cosine_similarity(parse_embedding(ViewPapers[i].embedding).v,
                                        lastView.interest_vectors[1]),
                      ViewPapers[i].similarity.val)
    /\ \E i \in 1..Len(ViewPapers) : ~ViewPapers[i].similarity.has

\* C7: with no similarity source in the request and no UserFilters record,
\* the source set is all of the user's folders, and that set is saved.
C7_DefaultAllFolders ==
    (lastView.done /\ ~lastView.before.exists /\ ~lastView.sim_requested) =>
        /\ Range(lastView.selected_sim_favorites) = OwnFolders
        /\ userFilters[lastView.user].exists
        /\ userFilters[lastView.user].sim_favorites = lastView.selected_sim_favorites

\* A first view of a user who owns two of the three folders.
C7_Witness ==
    /\ lastView.done /\ ~lastView.before.exists /\ ~lastView.sim_requested
    /\ Cardinality(OwnFolders) = 2
    /\ DOMAIN favorites # OwnFolders

\* C8: a view saves the selection it resolved, so the next view of the user,
\* without category and sim_favorite parameters and with nothing changed in
\* between, resolves the same categories, tags and similarity sources, and
\* for the same date returns the same papers in the same order.
C8_NextViewReproduces ==
    [][(lastView.done /\ lastView'.done /\ lastView'.follows /\ lastView'.plain) =>
        /\ lastView'.selected_categories = lastView.selected_categories
        /\ lastView'.tag_filters = lastView.tag_filters
        /\ lastView'.selected_sim_favorites = lastView.selected_sim_favorites
        /\ lastView'.target_date = lastView.target_date
               => lastView'.result = lastView.result]_vars

\* A second view without parameters that shows a category and source
\* selection made by the request of the first.
C8_Witness ==
    /\ lastView.done /\ lastView.follows /\ lastView.plain
    /\ lastView.selected_categories # <<>>
    /\ lastView.selected_sim_favorites # <<>>
    /\ Range(lastView.selected_sim_favorites) # OwnFolders
    /\ Len(ViewPapers) >= 2
    /\ \E i \in 1..Len(ViewPapers) : ViewPapers[i].similarity.has

-----------------------------------------------------------------------------
(* The folders (app/feed.py: favorites, favorites_api, remove_from_favorite, *)
(* delete_favorite, rename_favorite; app/services/favorites.py).            *)

\* remove_paper_from_favorite: DELETE of the pair.
remove_paper_from_favorite(fp, fid, pid) ==
    IF fid \in DOMAIN fp
    THEN [fp EXCEPT ![fid] = SelectSeq(@, LAMBDA x : x # pid)]
    ELSE fp

\* get_favorite(db_conn, favorite_id): the row of that id, whoever owns it;
\* 0 for None.
get_favorite(favs, favorite_id) == IF favorite_id \in DOMAIN favs THEN favorite_id ELSE 0

\* The ids among paper_ids that find_by_id finds.
FoundPapers(paper_ids) == SelectSeq(paper_ids, LAMBDA pid : find_by_id(pid)[1])

\* GET /favorites?favorite_id= by user u; favorite_id 0 is no parameter.  The
\* papers of the model carry no pub_date, so the sort by it leaves the papers
\* in the order of the rows.
FavoritesView(u, favorite_id) ==
    LET user_favorites == list_favorites(favorites, u)
        asked == IF favorite_id # 0 THEN get_favorite(favorites, favorite_id) ELSE 0
        selected == IF asked # 0 THEN asked ELSE user_favorites[1]
    IN  /\ lastCall' =
               IF user_favorites = <<>>
               THEN [op |-> "favorites", user |-> u, favorite_id |-> favorite_id,
                     selected |-> 0, papers |-> <<>>]
               ELSE [op |-> "favorites", user |-> u, favorite_id |-> favorite_id,
                     selected |-> selected,
                     papers |-> FoundPapers(paper_ids_of(favPapers, selected))]
        /\ lastView' = NoView
        /\ UNCHANGED <<favorites, favPapers, userFilters, history, storeVars, inflight>>

\* str.lower() over the folder names, and the order of the lowered names.
Lower(n) == IF n = "B" THEN "b" ELSE n
LowerRank(n) == CASE Lower(n) = "a" -> 1 [] Lower(n) = "b" -> 2 [] OTHER -> 3

MinusOne == Num(-1)

\* f["similarity"] if f["similarity"] is not None else -1
SimOrMinusOne(sim) == IF sim.has THEN sim.val ELSE MinusOne

RECURSIVE InsertByName(_, _)
InsertByName(sorted, x) ==
    IF sorted = <<>> THEN <<x>>
    ELSE IF LowerRank(x.name) < LowerRank(Head(sorted).name)
         THEN <<x>> \o sorted
         ELSE <<Head(sorted)>> \o InsertByName(Tail(sorted), x)

RECURSIVE SortByName(_, _)
\* enriched.sort(key=lambda f: f["name"].lower()); the sort is stable.
SortByName(sorted, rows) ==
    IF rows = <<>> THEN sorted ELSE SortByName(InsertByName(sorted, Head(rows)), Tail(rows))

RECURSIVE InsertByScore(_, _)
InsertByScore(sorted, x) ==
    IF sorted = <<>> THEN <<x>>
    ELSE IF RatLess(SimOrMinusOne(Head(sorted).similarity), SimOrMinusOne(x.similarity))
         THEN <<x>> \o sorted
         ELSE <<Head(sorted)>> \o InsertByScore(Tail(sorted), x)

RECURSIVE SortByScore(_, _)
\* enriched.sort(key=similarity or -1, reverse=True); stable, so equal keys
\* stay in the order of the names.
SortByScore(sorted, rows) ==
    IF rows = <<>> THEN sorted ELSE SortByScore(InsertByScore(sorted, Head(rows)), Tail(rows))

\* favorites_with_similarity(user_id, paper_id)
favorites_with_similarity(favs, fp, u, paper_id) ==
    LET user_favorites == list_favorites(favs, u)
        found == IF Truthy(paper_id) THEN find_by_id(paper_id) ELSE <<FALSE, NonDict, None>>
        paper_embedding == IF found[1] THEN parse_embedding(found[2].embedding) ELSE NoEmb
        similarity(f) ==
            LET fav_emb == parse_embedding(favs[f].embedding)
            IN  IF TruthyEmb(paper_embedding) /\ TruthyEmb(fav_emb)
                THEN Sim(cosine_similarity(paper_embedding.v, fav_emb.v))
                ELSE NoSim
        sims == {similarity(f).val : f \in {g \in Range(user_favorites) : similarity(g).has}}
        is_top(f) == /\ similarity(f).has
                     /\ \A x \in sims : ~RatLess(similarity(f).val, x)
        enriched == [i \in 1..Len(user_favorites) |->
                        [id |-> user_favorites[i],
                         name |-> favs[user_favorites[i]].name,
                         has_paper |-> Truthy(paper_id) /\ IsMember(fp, user_favorites[i], paper_id),
                         similarity |-> similarity(user_favorites[i]),
                         is_top |-> is_top(user_favorites[i])]]
    IN  SortByScore(<<>>, SortByName(<<>>, enriched))

\* favorites_with_similarity raises: parse_embedding does, on the paper's
\* embedding.
FavoritesWithSimilarityRaises(paper_id) ==
    /\ Truthy(paper_id)
    /\ find_by_id(paper_id)[1]
    /\ ParseEmbeddingRaises(find_by_id(paper_id)[2].embedding)

\* GET /api/favorites?paper_id= by user u.
FavoritesApi(u, paper_id) ==
    /\ lastCall' =
           IF FavoritesWithSimilarityRaises(paper_id)
           THEN [op |-> "favorites_api", user |-> u, paper_id |-> paper_id,
                 raised |-> TRUE, result |-> <<>>]
           ELSE [op |-> "favorites_api", user |-> u, paper_id |-> paper_id,
                 raised |-> FALSE,
                 result |-> favorites_with_similarity(favorites, favPapers, u, paper_id)]
    /\ lastView' = NoView
    /\ UNCHANGED <<favorites, favPapers, userFilters, history, storeVars, inflight>>

\* POST /favorites/<favorite_id>/remove by user u.
RemoveFromFavorite(u, favorite_id, paper_id) ==
    IF favorite_id \notin FavIdsOf(favorites, u) \/ ~Truthy(paper_id)
    THEN /\ lastView' = NoView
         /\ lastCall' = NoCall
         /\ UNCHANGED <<favorites, favPapers, userFilters, history, storeVars, inflight>>
    ELSE LET fp == remove_paper_from_favorite(favPapers, favorite_id, paper_id)
         IN  /\ favPapers' = fp
             /\ favorites' = IF RecomputeRaises(fp, favorite_id) THEN favorites
                             ELSE recompute_favorite_embedding(favorites, fp, favorite_id)
             /\ lastView' = NoView
             /\ lastCall' = [op |-> "remove_from_favorite", user |-> u,
                             favorite_id |-> favorite_id, paper_id |-> paper_id,
                             raised |-> RecomputeRaises(fp, favorite_id)]
             /\ UNCHANGED <<userFilters, history, storeVars, inflight>>

\* POST /favorites/<favorite_id>/delete by user u.  The rows of
\* FavoritePapers stay: the connection does not turn foreign keys on.
DeleteFavorite(u, favorite_id) ==
    IF favorite_id \notin FavIdsOf(favorites, u)
    THEN /\ lastView' = NoView
         /\ lastCall' = NoCall
         /\ UNCHANGED <<favorites, favPapers, userFilters, history, storeVars, inflight>>
    ELSE /\ favorites' = [f \in DOMAIN favorites \ {favorite_id} |-> favorites[f]]
         /\ lastView' = NoView
         /\ lastCall' = NoCall
         /\ UNCHANGED <<favPapers, userFilters, history, storeVars, inflight>>

\* POST /favorites/<favorite_id>/rename by user u.
RenameFavorite(u, favorite_id, name) ==
    LET new_name == Strip(name)
        conflict == {f \in FavIdsOf(favorites, u) :
                        favorites[f].name = new_name /\ f # favorite_id}
    IN  IF new_name = "" \/ favorite_id \notin FavIdsOf(favorites, u) \/ conflict # {}
        THEN /\ lastView' = NoView
             /\ lastCall' = NoCall
             /\ UNCHANGED <<favorites, favPapers, userFilters, history, storeVars, inflight>>
        ELSE /\ favorites' = [favorites EXCEPT ![favorite_id].name = new_name]
             /\ lastView' = NoView
             /\ lastCall' = [op |-> "rename_favorite", user |-> u,
                             favorite_id |-> favorite_id, name |-> new_name]
             /\ UNCHANGED <<favPapers, userFilters, history, storeVars, inflight>>

-----------------------------------------------------------------------------
(* The folders' world: the feed's partitions with two more papers in the    *)
(* older one, an embedding pointing the other way and one that is a list of *)
(* no numbers.  No partition holds p9.                                      *)

Feed7 == Paper("p7", None, "A", NoTags, Emb("list", Vec2(-1, 0), ""), CatAI)
Feed8 == Paper("p8", None, "B", NoTags, Emb("jsonbadlist", <<>>, ""), CatAI)

FavStore ==
    [d \in Dates |-> IF d = "2024-01-02" THEN File(<<Feed4, Feed2, Feed1, Feed3>>)
                     ELSE File(<<Feed5, Feed1, Feed7, Feed8>>)]

InitFavorites ==
    /\ store = FavStore
    /\ lastMerge = NoMerge
    /\ \E db \in {NewDatabase, OlderDatabase} :
           /\ favorites = db.favorites
           /\ favPapers = db.favPapers
    /\ userFilters = [u \in Users |-> NoFilterRow]
    /\ history = [u \in Users |-> NoHistoryRow]
    /\ lastView = NoView
    /\ lastCall = NoCall
    /\ inflight = NoRequests

\* No folder is full.
RoomInFolders == \A f \in DOMAIN favPapers : Len(favPapers[f]) < MaxMembers

MemberParams == {None, "p1", "p2", "p4", "p8", "p9"}

\* The folders and their papers.
NextFavorites ==
    \E u \in Requesters :
        \/ \E n \in NameParams : CreateFavorite(u, n)
        \/ \E p \in MemberParams : RoomInFolders /\ AddToFavorites(u, p, <<"1">>, "")
        \/ \E p \in {"p1", "p2"}, ids \in {<<>>, <<"1">>} :
               RoomInFolders /\ AddToFavorites(u, p, ids, " c ")
        \/ \E f \in {1, 4}, p \in {None, "p1", "p2", "p8"} : RemoveFromFavorite(u, f, p)

SpecFavorites == InitFavorites /\ [][NextFavorites]_vars

\* The folders under every request that names one.
NextFolders ==
    \E u \in Requesters :
        \/ \E n \in NameParams : CreateFavorite(u, n)
        \/ \E p \in {None, "p7"} :
               RoomInFolders /\ AddToFavorites(u, p, <<"2", "x", "1">>, "")
        \/ \E f \in {1, 2, 9}, p \in {None, "p1", "p3"} : RemoveFromFavorite(u, f, p)
        \/ \E f \in {2, 3, 9} : DeleteFavorite(u, f)
        \/ \E f \in {1, 2, 9}, n \in {"", "B", " c "} : RenameFavorite(u, f, n)
        \/ \E f \in {0, 1, 2, 9} : FavoritesView(u, f)
        \/ \E p \in {None, "p1", "p7", "p8"} : FavoritesApi(u, p)

SpecFolders == InitFavorites /\ [][NextFolders]_vars

-----------------------------------------------------------------------------
(* Properties of the folders (SpecFavorites, SpecFolders).                  *)

\* The embeddings of the folder's member papers, in the order of its rows:
\* of those a partition holds with an embedding that is a list of numbers,
\* not empty.
EmbeddingsOfMembers(fid) ==
    LET usable(pid) ==
            /\ find_by_id(pid)[1]
            /\ ~ParseEmbeddingRaises(find_by_id(pid)[2].embedding)
            /\ HasEmbedding(find_by_id(pid)[2])
        ids == SelectSeq(paper_ids_of(favPapers, fid), usable)
    IN  [i \in 1..Len(ids) |-> parse_embedding(find_by_id(ids[i])[2].embedding).v]

RECURSIVE SumOver(_, _, _)
\* The sum of coordinate k over the vectors E[i], i in S.
SumOver(E, S, k) ==
    IF S = {} THEN Zero
    ELSE LET i == CHOOSE x \in S : TRUE
         IN  RatAdd(E[i][k], SumOver(E, S \ {i}, k))

\* vec is the coordinate-wise arithmetic mean of the vectors of E as long as
\* the first one, the others left out.
IsMeanOf(vec, E) ==
    LET S == {i \in 1..Len(E) : Len(E[i]) = Len(E[1])}
    IN  /\ Len(vec) = Len(E[1])
        /\ \A k \in 1..Len(vec) :
               RatMul(vec[k], Num(Cardinality(S))) = SumOver(E, S, k)

\* The stored embedding of folder f is the mean of its members' embeddings,
\* absent when no member has one.
EmbeddingMatchesMembers(f) ==
    LET E == EmbeddingsOfMembers(f)
        stored == parse_embedding(favorites[f].embedding)
    IN  IF E = <<>> THEN favorites[f].embedding = NoEmb
        ELSE stored.kind = "list" /\ IsMeanOf(stored.v, E)

\* The folders of the request's list that are the user's, before the call.
TargetsOfAdd ==
    {ToInt(lastCall.selected_ids[i]) :
        i \in {j \in 1..Len(lastCall.selected_ids) : IsDigit(lastCall.selected_ids[j])}}
    \cap FavIdsOf(favorites, lastCall.user)

\* C11: after a paper is added to a folder or removed from one by the add
\* and remove requests, the folder's stored embedding is the mean vector of
\* the embeddings of its current member papers, the members not found or
\* without a usable embedding skipped, and absent when there is none.
C11_EmbeddingIsMeanOfMembers ==
    /\ lastCall.op = "add_to_favorites" =>
           \A f \in TargetsOfAdd :
               IsMember(favPapers, f, lastCall.paper_id)
               /\ ~IsMember(lastCall.before, f, lastCall.paper_id)
                   => EmbeddingMatchesMembers(f)
    /\ lastCall.op = "remove_from_favorite" => EmbeddingMatchesMembers(lastCall.favorite_id)

\* C12: adding a pair that is a member already returns false and leaves the
\* relation as it is; adding a pair that is no member returns true and adds
\* exactly that pair.  Seen through add_to_favorites, which counts the true
\* results: a folder of the request that held the paper keeps its rows, one
\* that did not gets the paper as its last row, every other folder keeps its
\* rows, and the count is the number of folders that did not hold it.
C12_AddIsIdempotent ==
    (lastCall.op = "add_to_favorites" /\ ~lastCall.raised) =>
        /\ \A f \in DOMAIN favPapers \cup DOMAIN lastCall.before :
               paper_ids_of(favPapers, f) =
                   IF f \in TargetsOfAdd /\ ~IsMember(lastCall.before, f, lastCall.paper_id)
                   THEN Append(paper_ids_of(lastCall.before, f), lastCall.paper_id)
                   ELSE paper_ids_of(lastCall.before, f)
        /\ lastCall.added =
               Cardinality({f \in TargetsOfAdd :
                               ~IsMember(lastCall.before, f, lastCall.paper_id)})

\* An add to two folders, one of which held the paper.
C12_Witness ==
    /\ lastCall.op = "add_to_favorites" /\ ~lastCall.raised
    /\ lastCall.added = 1
    /\ \E f \in TargetsOfAdd : IsMember(lastCall.before, f, lastCall.paper_id)
    /\ \E f \in TargetsOfAdd : paper_ids_of(lastCall.before, f) # <<>>
                                /\ ~IsMember(lastCall.before, f, lastCall.paper_id)

\* C13: no user has two folders of one name, whatever folders were created,
\* renamed and deleted; creating a folder under a name the user has already
\* yields the id of the folder there is and no second one.
C13_FolderNamesUnique ==
    /\ \A f, g \in DOMAIN favorites :
           (favorites[f].user_id = favorites[g].user_id
            /\ favorites[f].name = favorites[g].name) => f = g
    /\ lastCall.op = "create_favorite" =>
           /\ lastCall.id \in FavIdsOf(favorites, lastCall.user)
           /\ favorites[lastCall.id].name = lastCall.name
           /\ lastCall.existed =>
                  ensure_favorite(favorites, lastCall.user, lastCall.name)
                      = <<favorites, lastCall.id>>

\* A folder was created again under the name of one there is, while the
\* other user has a folder of that name too.
C13_Witness ==
    /\ lastCall.op = "create_favorite" /\ lastCall.existed
    /\ \E f \in DOMAIN favorites :
           favorites[f].user_id # lastCall.user /\ favorites[f].name = lastCall.name
    /\ \E f \in FavIdsOf(favorites, lastCall.user) : favorites[f].name # lastCall.name

\* C14: the folders of /api/favorites come by falling similarity, equal
\* similarities by the lowered name rising, and every folder without a
\* similarity after every folder with one.
C14_ScoredBeforeUnscored ==
    (lastCall.op = "favorites_api" /\ ~lastCall.raised) =>
        \A i, j \in 1..Len(lastCall.result) :
            i < j =>
                LET x == lastCall.result[i]
                    y == lastCall.result[j]
                IN  /\ y.similarity.has => x.similarity.has
                    /\ (x.similarity.has /\ y.similarity.has)
                           => ~RatLess(x.similarity.val, y.similarity.val)
                    /\ (x.similarity.has = y.similarity.has
                        /\ x.similarity.val = y.similarity.val)
                           => LowerRank(x.name) <= LowerRank(y.name)
\* C15: a request naming a folder that is not the requester's, another
\* user's or none at all, shows none of that folder's content and changes
\* neither the folder nor its rows.
C15_ForeignFolderIsNotFound ==
    [][/\ \A f \in DOMAIN favorites :
              favorites[f].user_id \notin Requesters =>
                  /\ f \in DOMAIN favorites' /\ favorites'[f] = favorites[f]
                  /\ paper_ids_of(favPapers', f) = paper_ids_of(favPapers, f)
       /\ \A f \in DOMAIN favPapers :
              (f \notin DOMAIN favorites /\ f \notin DOMAIN favorites') =>
                  paper_ids_of(favPapers', f) = paper_ids_of(favPapers, f)
       /\ lastCall'.op = "favorites" =>
              lastCall'.selected \in FavIdsOf(favorites, lastCall'.user) \cup {0}]_vars
-----------------------------------------------------------------------------
(* The lookups of the paper store: find_by_id and load_date over partitions *)
(* of every kind, read and never written.                                   *)

\* p1 again as a later partition has it.
PaperA2 == Paper("p1", None, "C", Tags("list", <<"CV">>), NoEmb, CatAI)

\* a record that names a tag three times, once with spaces around it
PaperDupTags == Paper("p3", None, "A", Tags("list", <<"AI", " AI ", "NLP", "AI">>), NoEmb, CatAI)

LookupFiles ==
    {Missing, Corrupt, NotList, File(<<>>), File(<<PaperA>>), File(<<NonDict, PaperB>>),
     File(<<PaperB, PaperA1, PaperA2>>), File(<<PaperNoId, PaperA0>>),
     File(<<PaperDupTags>>)}

LookupIds == {None, "", "p1", " p1", "p2", "p9"}

\* A date without a partition, besides those that may have one.
LookupDates == Dates \cup {"2024-01-03"}

InitLookup ==
    /\ store \in [Dates -> LookupFiles]
    /\ lastMerge = NoMerge
    /\ favorites = <<>>
    /\ favPapers = <<>>
    /\ userFilters = <<>>
    /\ history = <<>>
    /\ lastView = NoView
    /\ lastCall = NoCall
    /\ inflight = NoRequests

\* find_by_id(paper_id), as a request makes it.
FindById(paper_id) ==
    /\ lastCall' = [op |-> "find_by_id", paper_id |-> paper_id,
                    found |-> find_by_id(paper_id)[1],
                    paper |-> find_by_id(paper_id)[2],
                    date |-> find_by_id(paper_id)[3]]
    /\ lastView' = NoView
    /\ UNCHANGED <<favorites, favPapers, userFilters, history, storeVars, inflight>>

\* load_date(date_val), as a request makes it.
LoadDate(date_val) ==
    /\ lastCall' = [op |-> "load_date", date |-> date_val,
                    raised |-> LoadDateRaises(FileAt(date_val)),
                    result |-> load_date(FileAt(date_val))]
    /\ lastView' = NoView
    /\ UNCHANGED <<favorites, favPapers, userFilters, history, storeVars, inflight>>

NextLookup ==
    \/ \E paper_id \in LookupIds : FindById(paper_id)
    \/ \E date_val \in LookupDates : LoadDate(date_val)

SpecLookup == InitLookup /\ [][NextLookup]_vars

-----------------------------------------------------------------------------
(* Properties of the lookups.                                               *)

\* The dates whose partition holds a paper of the id.
DatesHolding(pid) ==
    {d \in Dates : store[d].state = "list"
                   /\ \E i \in 1..Len(store[d].items) :
                          store[d].items[i].isdict
                          /\ _normalize_paper(store[d].items[i]).id = pid}

\* C16: find_by_id returns the paper of the newest partition that holds the
\* id, the first of that partition with it, together with that partition's
\* date; None and None when no partition holds the id.
C16_NewestPartitionWins ==
    lastCall.op = "find_by_id" =>
        LET pid == Strip(lastCall.paper_id)
            D == DatesHolding(pid)
        IN  IF D = {} THEN ~lastCall.found /\ lastCall.date = None
            ELSE /\ lastCall.found
                 /\ lastCall.date \in D
                 /\ \A d \in D : DateRank(d) <= DateRank(lastCall.date)
                 /\ LET items == SelectSeq(store[lastCall.date].items, LAMBDA x : x.isdict)
                    IN  \E i \in 1..Len(items) :
                            /\ lastCall.paper = _normalize_paper(items[i])
                            /\ lastCall.paper.id = pid
                            /\ \A j \in 1..(i - 1) : _normalize_paper(items[j]).id # pid

\* Both partitions hold the id, with different papers, and the newer one's
\* is returned; the newer partition holds the id twice.
C16_Witness ==
    /\ lastCall.op = "find_by_id" /\ lastCall.found
    /\ DatesHolding(Strip(lastCall.paper_id)) = Dates
    /\ lastCall.date = "2024-01-02"
    /\ store["2024-01-02"] = File(<<PaperB, PaperA1, PaperA2>>)
    /\ store["2024-01-01"] = File(<<PaperA>>)
    /\ lastCall.paper.title = "B"

\* C17: load_date of a date whose partition is missing or cannot be parsed
\* as a list returns the empty list and does not raise.
C17_MissingOrUnparseableIsEmpty ==
    (lastCall.op = "load_date"
     /\ FileAt(lastCall.date).state \in {"missing", "corrupt", "notlist"}) =>
        ~lastCall.raised /\ lastCall.result = <<>>

\* A partition that is no JSON was loaded.
C17_Witness ==
    /\ lastCall.op = "load_date" /\ ~lastCall.raised
    /\ FileAt(lastCall.date) = Corrupt
    /\ lastCall.result = <<>>

-----------------------------------------------------------------------------
(* The arithmetic of Python's float on what cosine_similarity computes.     *)
(* A float is sign * m * 2^e with a significand m of Precision bits; sqrt,  *)
(* * and / return the float nearest to the exact result, a tie going to the *)
(* even significand.  The vectors of the model have small whole components, *)
(* whose products and sums are exact, and no result comes near the largest  *)
(* or the smallest float.  A whole number is held as a sequence of limbs of *)
(* LimbBits bits, lowest first, without a zero at its high end.             *)

Precision == 53
LimbBits == 12
Limb == 2 ^ LimbBits

\* a without the zeros at its high end
BigTrim(a) ==
    LET used == {i \in 1..Len(a) : a[i] # 0}
    IN  IF used = {} THEN <<>>
        ELSE SubSeq(a, 1, CHOOSE i \in used : \A j \in used : j <= i)

RECURSIVE BigOf(_)
\* the whole number n >= 0
BigOf(n) == IF n = 0 THEN <<>> ELSE <<n % Limb>> \o BigOf(n \div Limb)

\* The limb of a at i, 0 above its high end.
LimbAt(a, i) == IF i \in 1..Len(a) THEN a[i] ELSE 0

\* a + b: the carry into limb i comes from a limb below that overflows, all
\* limbs between them being full
BigAdd(a, b) ==
    LET n == (IF Len(a) > Len(b) THEN Len(a) ELSE Len(b)) + 1
        carry(i) == IF \E j \in 1..(i - 1) :
                          /\ LimbAt(a, j) + LimbAt(b, j) >= Limb
                          /\ \A k \in (j + 1)..(i - 1) :
                                 LimbAt(a, k) + LimbAt(b, k) = Limb - 1
                    THEN 1 ELSE 0
    IN  BigTrim([i \in 1..n |-> (LimbAt(a, i) + LimbAt(b, i) + carry(i)) % Limb] \o <<>>)

\* a - b, for a >= b: the borrow from limb i goes to a limb below where a
\* has less than b, the limbs between them being equal
BigSub(a, b) ==
    LET borrow(i) == IF \E j \in 1..(i - 1) :
                           /\ a[j] < LimbAt(b, j)
                           /\ \A k \in (j + 1)..(i - 1) : a[k] = LimbAt(b, k)
                     THEN 1 ELSE 0
    IN  BigTrim([i \in 1..Len(a) |-> (a[i] - LimbAt(b, i) - borrow(i)) % Limb] \o <<>>)

\* a < b: by the length, then by the highest limb that differs
BigLess(a, b) ==
    IF Len(a) # Len(b) THEN Len(a) < Len(b)
    ELSE \E i \in 1..Len(a) :
             /\ a[i] < b[i]
             /\ \A j \in (i + 1)..Len(a) : a[j] = b[j]

\* a * Limb
ShiftLimb(a) == IF a = <<>> THEN <<>> ELSE <<0>> \o a

RECURSIVE ColumnSum(_, _, _, _)
\* the sum of a[i] * b[k + 1 - i] over i from..Len(a): below 2^31 for the
\* numbers of at most nine limbs that occur
ColumnSum(a, b, k, from) ==
    IF from > Len(a) THEN 0
    ELSE LimbAt(a, from) * LimbAt(b, k + 1 - from) + ColumnSum(a, b, k, from + 1)

\* a * b: each column sum is three limbs, which are added in their places
BigMul(a, b) ==
    LET n == Len(a) + Len(b)
        col == [k \in 1..n |-> ColumnSum(a, b, k, 1)] \o <<>>
        low == [k \in 1..n |-> col[k] % Limb]
        mid == [k \in 1..n |-> (col[k] \div Limb) % Limb]
        high == [k \in 1..n |-> col[k] \div (Limb * Limb)]
    IN  IF a = <<>> \/ b = <<>> THEN <<>>
        ELSE BigAdd(BigAdd(BigTrim(low), ShiftLimb(BigTrim(mid))),
                    ShiftLimb(ShiftLimb(BigTrim(high))))

\* 2^k
BigPow2(k) ==
    [i \in 1..(k \div LimbBits + 1) |->
        IF i = k \div LimbBits + 1 THEN 2 ^ (k % LimbBits) ELSE 0] \o <<>>

\* The bits of a > 0.
BitLen(a) ==
    LimbBits * (Len(a) - 1)
    + CHOOSE k \in 1..LimbBits : 2 ^ (k - 1) <= a[Len(a)] /\ a[Len(a)] < 2 ^ k

\* a div Limb^(Len(a) - k): the k highest limbs.
TopLimbs(a, k) == BigTrim(SubSeq(a, Len(a) - k + 1, Len(a)))

\* (prev * Limb + g) * y <= nk, where y is d, or prev * Limb + g itself
\* for a root.
DigitFits(prev, d, nk, root, g) ==
    LET c == BigAdd(ShiftLimb(prev), BigOf(g))
    IN  ~BigLess(nk, BigMul(c, IF root THEN c ELSE d))

\* The largest g below Limb that fits, found in three parts of a third of
\* the limb's bits each, the highest first.
TopDigit(prev, d, nk, root) ==
    LET radix == 2 ^ (LimbBits \div 3)
        part(base, unit) ==
            CHOOSE h \in 0..(radix - 1) :
                /\ h = radix - 1 \/ ~DigitFits(prev, d, nk, root, base + (h + 1) * unit)
                /\ DigitFits(prev, d, nk, root, base + h * unit)
    IN  CHOOSE g \in {mid + part(mid, 1) :
                         mid \in {high + part(high, radix) * radix :
                                    high \in {part(0, radix * radix) * radix * radix}}} : TRUE

RECURSIVE DivTop(_, _, _)
\* TopLimbs(n, k) div d, a limb of n at a time; it is 0 for k < Len(d)
DivTop(n, d, k) ==
    IF k < Len(d) THEN <<>>
    ELSE CHOOSE q \in {BigTrim(<<TopDigit(prev, d, nk, FALSE)>> \o prev) :
                          prev \in {DivTop(n, d, k - 1)}, nk \in {TopLimbs(n, k)}} : TRUE

\* n div d
BigDiv(n, d) == DivTop(n, d, Len(n))

RECURSIVE SqrtTop(_, _)
\* floor(sqrt(x div Limb^(2 * (K - k)))), K the limbs of the root, two limbs
\* of x at a time
SqrtTop(x, k) ==
    IF k = 0 THEN <<>>
    ELSE LET K == (Len(x) + 1) \div 2
         IN  CHOOSE q \in {BigTrim(<<TopDigit(prev, <<>>, xk, TRUE)>> \o prev) :
                              prev \in {SqrtTop(x, k - 1)},
                              xk \in {BigTrim(SubSeq(x, 2 * (K - k) + 1, Len(x)))}} : TRUE

\* floor(sqrt(x))
BigSqrt(x) == SqrtTop(x, (Len(x) + 1) \div 2)

\* A significand that rounding carried to 2^Precision, brought back.
Renormalized(m, e) ==
    IF m = BigPow2(Precision) THEN [m |-> BigPow2(Precision - 1), e |-> e + 1]
    ELSE [m |-> m, e |-> e]

\* q or q + 1, whichever is nearer to (q * d + rest) / d, a tie going to the
\* even one.
NearestOf(q, rest, d) ==
    LET twice == BigAdd(rest, rest)
        up == BigLess(d, twice) \/ (twice = d /\ q[1] % 2 = 1)
    IN  IF up THEN BigAdd(q, <<1>>) ELSE q

\* The whole number nearest to n / d.
NearestQuotient(n, d) ==
    CHOOSE r \in {NearestOf(q, BigSub(n, BigMul(q, d)), d) : q \in {BigDiv(n, d)}} : TRUE

\* The power of two that scales n / d into [2^(Precision-1), 2^Precision).
ScaleOf(n, d) ==
    LET s0 == Precision - 1 - (BitLen(n) - BitLen(d))
        n0 == IF s0 >= 0 THEN BigMul(n, BigPow2(s0)) ELSE n
        d0 == IF s0 < 0 THEN BigMul(d, BigPow2(-s0)) ELSE d
    IN  IF BigLess(n0, BigMul(d0, BigPow2(Precision - 1))) THEN s0 + 1 ELSE s0

\* The float nearest to n / d, for n, d > 0.
RoundDiv(n, d) ==
    CHOOSE r \in {Renormalized(NearestQuotient(nd[1], nd[2]), -s) :
                     nd \in {<<IF s >= 0 THEN BigMul(n, BigPow2(s)) ELSE n,
                                IF s < 0 THEN BigMul(d, BigPow2(-s)) ELSE d>> :
                              s \in {ScaleOf(n, d)}},
                     s \in {ScaleOf(n, d)}} : TRUE

\* math.sqrt(n) for a whole n > 0: n is scaled by a power of four into
\* [4^(Precision-1), 4^Precision), and the root of a whole number is never
\* half way between two whole numbers.
FloatSqrt(n) ==
    LET t == (2 * Precision - BitLen(BigOf(n))) \div 2
        x == BigMul(BigOf(n), BigPow2(2 * t))
        q == BigSqrt(x)
        up == BigLess(BigAdd(BigMul(q, q), q), x)
    IN  Renormalized(IF up THEN BigAdd(q, <<1>>) ELSE q, -t)

\* x * y
FloatMul(x, y) ==
    CHOOSE r \in {[m |-> q.m, e |-> q.e + x.e + y.e] :
                     q \in {RoundDiv(p, <<1>>) : p \in {BigMul(x.m, y.m)}}} : TRUE

\* n / y for a whole n > 0
FloatDivWhole(n, y) ==
    CHOOSE r \in {[m |-> q.m, e |-> q.e - y.e] : q \in {RoundDiv(BigOf(n), y.m)}} : TRUE

RECURSIVE WholeDot(_, _)
\* sum(a * b for a, b in zip(vec1, vec2)) over whole components
WholeDot(vec1, vec2) ==
    IF vec1 = <<>> \/ vec2 = <<>> THEN 0
    ELSE Head(vec1)[1] * Head(vec2)[1] + WholeDot(Tail(vec1), Tail(vec2))

\* The floats 0.0 and 1.0.
FloatZero == [sign |-> 0, m |-> <<>>, e |-> 0]
FloatOne == [sign |-> 1, m |-> BigPow2(Precision - 1), e |-> 1 - Precision]

\* cosine_similarity as the floats compute it, on vectors of whole
\* components: [sign, m, e] for sign * m * 2^e.
cosine_similarity_float(vec1, vec2) ==
    IF vec1 = <<>> \/ vec2 = <<>> \/ Len(vec1) # Len(vec2) THEN FloatZero
    ELSE LET dot == WholeDot(vec1, vec2)
             sq1 == WholeDot(vec1, vec1)
             sq2 == WholeDot(vec2, vec2)
         IN  IF sq1 = 0 \/ sq2 = 0 THEN FloatZero
             ELSE IF dot = 0 THEN FloatZero
             ELSE CHOOSE r \in
                      {[sign |-> IF dot < 0 THEN -1 ELSE 1, m |-> q.m, e |-> q.e] :
                          q \in {FloatDivWhole(Abs(dot), p) :
                                    p \in {FloatMul(n1, n2) :
                                              n1 \in {FloatSqrt(sq1)},
                                              n2 \in {FloatSqrt(sq2)}}}} : TRUE

-----------------------------------------------------------------------------
(* The embedding math on its own: an input is drawn, and the function it is  *)
(* for is applied to it once.                                                *)

\* The shapes of a stored embedding.
EmbeddingShapes ==
    {NoEmb, Emb("list", <<>>, ""), Emb("list", Vec2(1, 0), ""), Emb("list", <<Num(2)>>, ""),
     Emb("jsonlist", <<>>, ""), Emb("jsonlist", Vec2(0, 1), ""),
     Emb("str", <<>>, "x"), Emb("str", <<>>, ""),
     Emb("badlist", <<>>, ""), Emb("jsonbadlist", <<>>, ""), Emb("other", <<>>, "")}

MaxVectors == 3
MeanVectors == {<<>>, <<Num(3)>>, Vec2(1, 2), Vec2(3, 4), <<Num(1), Num(2), Num(3)>>}

VectorLists == UNION {[1..n -> MeanVectors] : n \in 0..MaxVectors}

CosineVectors ==
    {<<>>, <<Num(1)>>, Vec2(0, 0), Vec2(1, 0), Vec2(0, 1), Vec2(1, 1), Vec2(3, 4), Vec2(-1, 0),
     Vec2(1, 2)}

CosinePairs ==
    {<<a, a>> : a \in CosineVectors}
    \cup {<<<<>>, Vec2(1, 0)>>, <<<<Num(1)>>, Vec2(1, 0)>>, <<Vec2(0, 0), Vec2(1, 1)>>,
          <<Vec2(1, 0), Vec2(0, 1)>>, <<Vec2(1, 0), Vec2(-1, 0)>>, <<Vec2(1, 1), Vec2(1, 0)>>,
          <<Vec2(1, 2), Vec2(3, 4)>>, <<Vec2(3, 4), Vec2(-1, 0)>>}

MathInputs ==
    {[op |-> "input", fn |-> "parse_embedding", raw |-> raw] : raw \in EmbeddingShapes}
    \cup {[op |-> "input", fn |-> "_mean_vector", vectors |-> vs] : vs \in VectorLists}
    \cup {[op |-> "input", fn |-> "cosine_similarity", vec1 |-> p[1], vec2 |-> p[2]] :
             p \in CosinePairs}

InitMath ==
    /\ store = [d \in Dates |-> Missing]
    /\ lastMerge = NoMerge
    /\ favorites = <<>>
    /\ favPapers = <<>>
    /\ userFilters = <<>>
    /\ history = <<>>
    /\ lastView = NoView
    /\ lastCall \in MathInputs
    /\ inflight = NoRequests

\* parse_embedding(raw)
ParseEmbedding ==
    /\ lastCall.op = "input" /\ lastCall.fn = "parse_embedding"
    /\ lastCall' = [op |-> "parse_embedding", raw |-> lastCall.raw,
                    raised |-> ParseEmbeddingRaises(lastCall.raw),
                    result |-> parse_embedding(lastCall.raw)]
    /\ UNCHANGED <<lastView, favorites, favPapers, userFilters, history, storeVars, inflight>>

\* _mean_vector(vectors), by the copy of favorites.py and by the copy of
\* recommendations.py
MeanVector ==
    /\ lastCall.op = "input" /\ lastCall.fn = "_mean_vector"
    /\ lastCall' = [op |-> "_mean_vector", vectors |-> lastCall.vectors,
                    result |-> _mean_vector(lastCall.vectors),
                    result_recommendations |-> _mean_vector_recommendations(lastCall.vectors)]
    /\ UNCHANGED <<lastView, favorites, favPapers, userFilters, history, storeVars, inflight>>

\* cosine_similarity(vec1, vec2)
CosineSimilarity ==
    /\ lastCall.op = "input" /\ lastCall.fn = "cosine_similarity"
    /\ lastCall' = [op |-> "cosine_similarity", vec1 |-> lastCall.vec1, vec2 |-> lastCall.vec2,
                    result |-> cosine_similarity_float(lastCall.vec1, lastCall.vec2)]
    /\ UNCHANGED <<lastView, favorites, favPapers, userFilters, history, storeVars, inflight>>

NextMath ==
    \/ ParseEmbedding
    \/ MeanVector
    \/ CosineSimilarity

SpecMath == InitMath /\ [][NextMath]_vars

-----------------------------------------------------------------------------
(* Properties of the embedding math (SpecMath).                             *)

\* C18: parse_embedding raises for no shape of its input, and returns a list
\* of numbers or None.
C18_ParseEmbeddingNeverRaises ==
    lastCall.op = "parse_embedding" =>
        ~lastCall.raised /\ lastCall.result.kind \in {"none", "list"}

C20_CosineOfIdenticalIsOne ==
    lastCall.op = "cosine_similarity" =>
        LET a == lastCall.vec1
            b == lastCall.vec2
            guarded == \/ a = <<>> \/ b = <<>> \/ Len(a) # Len(b)
                       \/ Dot(a, a) = Zero \/ Dot(b, b) = Zero
        IN  /\ guarded => lastCall.result = FloatZero
            /\ (~guarded /\ a = b) => lastCall.result = FloatOne
            /\ (~guarded /\ Dot(a, b) = Zero) => lastCall.result = FloatZero

-----------------------------------------------------------------------------
(* Properties of the feed's filters and groups (Spec).                      *)

\* The codes of a category field: its pieces between commas and spaces.
CodesOf(category) == Range(category) \ {",", " "}

\* The ids of papers, in their order.
IdSeq(papers) == [i \in 1..Len(papers) |-> papers[i].id]

\* The rows of the date the last view showed.
ViewRows == load_date(FileAt(lastView.target_date))

\* The rows of the date that pass the view's category selection.
RowsInCategories ==
    SelectSeq(ViewRows, LAMBDA r :
        \/ lastView.selected_categories = <<>>
        \/ CodesOf(r.category) \cap Range(lastView.selected_categories) # {})

\* C21: with a category selection that is not empty the view keeps a paper
\* if and only if a code of its category field is in the selection; with an
\* empty selection it keeps every paper of the date.
C21_CategoryFilter ==
    lastView.done => IdSeq(lastView.result.candidates) = IdSeq(RowsInCategories)

\* A selection that keeps a paper of two categories and drops others, one of
\* them without category.
C21_Witness ==
    /\ lastView.done
    /\ lastView.selected_categories # <<>>
    /\ \E i \in 1..Len(lastView.result.candidates) :
           Cardinality(CodesOf(lastView.result.candidates[i].category)) = 2
    /\ \E i \in 1..Len(ViewRows) :
           /\ ViewRows[i].category = <<>>
           /\ ViewRows[i].id \notin Range(IdSeq(lastView.result.candidates))
    /\ \E i \in 1..Len(ViewRows) :
           /\ ViewRows[i].category # <<>>
           /\ ViewRows[i].id \notin Range(IdSeq(lastView.result.candidates))

\* C22: a value of a request that is no known option is dropped and never
\* saved: the saved categories of every user are known category options and
\* the saved tag lists hold only known tags; a settings save stores the known
\* values of its request, in their order, and completes.
C22_OnlyKnownValuesSaved ==
    /\ \A u \in Users :
           /\ Range(userFilters[u].categories) \subseteq Range(DEFAULT_CATEGORIES)
           /\ Range(userFilters[u].tags.whitelist) \subseteq _collect_tag_pool
           /\ Range(userFilters[u].tags.blacklist) \subseteq _collect_tag_pool
    /\ lastCall.op = "settings" =>
           LET row == userFilters[lastCall.user]
               known(seq, S) == SelectSeq(seq, LAMBDA x : x \in S)
           IN  /\ row.exists
               /\ row.categories = known(lastCall.category, Range(DEFAULT_CATEGORIES))
               /\ row.tags.whitelist = known(lastCall.tag_whitelist, lastCall.tag_options)
               /\ row.tags.blacklist = known(lastCall.tag_blacklist, lastCall.tag_options)
    /\ lastView.done =>
           Range(lastView.selected_categories) \subseteq Range(DEFAULT_CATEGORIES)

\* A settings save whose request named an unknown category and an unknown
\* tag beside known ones.
C22_Witness ==
    /\ lastCall.op = "settings"
    /\ "bogus" \in Range(lastCall.category)
    /\ "zzz" \in Range(lastCall.tag_whitelist)
    /\ userFilters[lastCall.user].categories = <<"cs.AI">>
    /\ userFilters[lastCall.user].tags.whitelist = <<"AI">>

-----------------------------------------------------------------------------
(* Properties of the normalized records (SpecLookup, SpecStore).            *)

\* C23: the tags of every paper load_date returns are pairwise different
\* after trimming, and none is empty.
C23_TagsDeduplicated ==
    lastCall.op = "load_date" =>
        \A i \in 1..Len(lastCall.result) :
            LET tags == lastCall.result[i].tags.items
            IN  /\ \A j, k \in 1..Len(tags) : tags[j] = tags[k] => j = k
                /\ "" \notin Range(tags)


\* C24: no paper has an empty id after normalization: after a merge, every
\* record the partition holds and every paper load_date returns for it has
\* an id that is not empty, also when the partition held records without id.
C24_IdNeverEmpty ==
    lastMerge.done =>
        /\ \A i \in 1..Len(MergeStored) : MergeStored[i].id # ""
        /\ \A p \in Range(load_date(store[lastMerge.date])) : p.id # ""

-----------------------------------------------------------------------------
(* Properties of the feed's groups (Spec).                                  *)

\* How often the id is among the papers.
TimesIn(papers, id) == Cardinality({i \in 1..Len(papers) : papers[i].id = id})

\* C25: the result of a view is a permutation of the papers of the date that
\* pass the category filter, and each of them is in exactly one of the three
\* groups, the one its filter_group names.
C25_GroupsPartitionThePapers ==
    lastView.done =>
        LET r == lastView.result
            ids == Range(IdSeq(RowsInCategories)) \cup Range(IdSeq(r.papers))
            keys == {"white", "neutral", "black"}
        IN  /\ \A id \in ids : TimesIn(r.papers, id) = TimesIn(RowsInCategories, id)
            /\ \A i \in 1..Len(r.papers) :
                   /\ r.papers[i].filter_group \in keys
                   /\ \A key \in keys :
                          TimesIn(r[key], r.papers[i].id)
                              = IF key = r.papers[i].filter_group THEN 1 ELSE 0
            /\ \A key \in keys : \A i \in 1..Len(r[key]) :
                   /\ r[key][i].filter_group = key
                   /\ r[key][i] \in Range(r.papers)

\* A view with papers in all three groups, one of them meeting both tag
\* lists, in another order than the partition has them.
C25_Witness ==
    /\ lastView.done
    /\ lastView.result.white # <<>>
    /\ lastView.result.neutral # <<>>
    /\ Len(lastView.result.black) = 2
    /\ IdSeq(ViewPapers) # IdSeq(lastView.result.candidates)
    /\ \E i \in 1..Len(ViewPapers) :
           /\ Range(ViewPapers[i].tags) \cap Range(lastView.tag_filters.whitelist) # {}
           /\ Range(ViewPapers[i].tags) \cap Range(lastView.tag_filters.blacklist) # {}

-----------------------------------------------------------------------------
(* A feed view and a save_history of one user at the same time.  Each        *)
(* request has a connection of its own, a SELECT opens no transaction and    *)
(* every write is committed where it is made, so the statements of the two   *)
(* requests interleave in any order.                                         *)

\* The row the upsert of _save_filters writes, given the row `current` that
\* its _load_filters read.
UpsertRow(current, categories, tags, sim_favorites, last_date, last_paper_id, last_position) ==
    LET tags_payload == IF tags.given THEN tags.val ELSE current.tags
    IN  [exists |-> TRUE,
         categories |-> StripNonEmpty(IF categories.given THEN categories.val
                                      ELSE current.categories),
         tags |-> [whitelist |-> StripNonEmpty(tags_payload.whitelist),
                   blacklist |-> StripNonEmpty(tags_payload.blacklist)],
         sim_favorites |-> IF sim_favorites.given THEN sim_favorites.val
                           ELSE current.sim_favorites,
         last_date |-> IF last_date = None THEN current.last_date ELSE last_date,
         last_paper_id |-> IF last_paper_id = None THEN current.last_paper_id
                           ELSE last_paper_id,
         last_position |-> IF last_position.given THEN last_position.val
                           ELSE current.last_position]

\* A row and its BrowsingHistory row as a view with category=cs.CV and a
\* save_history of p5 leave them.
ReadRow ==
    [exists |-> TRUE, categories |-> <<"cs.CV">>, tags |-> NoTagFilters, sim_favorites |-> <<>>,
     last_date |-> "2024-01-01", last_paper_id |-> "p5", last_position |-> 1]
ReadHistoryRow == [exists |-> TRUE, paper_id |-> "p5", date |-> "2024-01-01", position |-> 1]

InitOverlap ==
    /\ store = FeedStore
    /\ lastMerge = NoMerge
    /\ \E db \in {NewDatabase, OlderDatabase} :
           /\ favorites = db.favorites
           /\ favPapers = db.favPapers
    /\ \E read \in BOOLEAN :
           /\ userFilters = [u \in Users |-> IF read /\ u = 1 THEN ReadRow ELSE NoFilterRow]
           /\ history = [u \in Users |-> IF read /\ u = 1 THEN ReadHistoryRow ELSE NoHistoryRow]
    /\ lastView = NoView
    /\ lastCall = NoCall
    /\ inflight = NoRequests

\* What the view in flight resolves from what it read.
ViewCategories(v) ==
    Filter(IF v.category # <<>> THEN v.category ELSE v.saved_filters.categories,
           Range(DEFAULT_CATEGORIES))
ViewSimFavorites(v) ==
    ResolveSimFavorites(v.sim_favorite, v.saved_filters, list_favorites(favorites, v.user))

\* index up to its reads of the user's rows.
ViewBegin(u, date_str, category, sim_favorite) ==
    /\ inflight.view.pc = "none"
    /\ inflight' = [inflight EXCEPT !.view =
                       [pc |-> "loaded", user |-> u, date_str |-> date_str,
                        category |-> category, sim_favorite |-> sim_favorite,
                        saved_filters |-> _load_filters(userFilters, u),
                        last_history_row |-> history[u],
                        before |-> userFilters[u]]]
    /\ UNCHANGED <<lastView, lastCall, favorites, favPapers, userFilters, history, storeVars>>

\* index up to `current = _load_filters(user_id)` of its _save_filters.
ViewSaveRead ==
    /\ inflight.view.pc = "loaded"
    /\ inflight' = [inflight EXCEPT !.view =
                       [f \in DOMAIN inflight.view \cup {"current"} |->
                           CASE f = "pc" -> "saving"
                             [] f = "current" -> _load_filters(userFilters, inflight.view.user)
                             [] OTHER -> inflight.view[f]]]
    /\ UNCHANGED <<lastView, lastCall, favorites, favPapers, userFilters, history, storeVars>>

\* The upsert of the view's _save_filters, and its commit.
ViewSaveWrite ==
    LET v == inflight.view
    IN  /\ v.pc = "saving"
        /\ userFilters' = [userFilters EXCEPT ![v.user] =
                              UpsertRow(v.current, Given(ViewCategories(v)),
                                        Given(v.saved_filters.tags),
                                        Given(ViewSimFavorites(v)), None, None, NotGiven)]
        /\ inflight' = [inflight EXCEPT !.view.pc = "saved"]
        /\ UNCHANGED <<lastView, lastCall, favorites, favPapers, history, storeVars>>

\* The rest of index: the papers of the date, ranked and grouped.
ViewRender ==
    LET v == inflight.view
        target_date == ResolveDate(v.date_str, v.saved_filters, v.last_history_row)
        interest_vectors == get_favorite_embeddings(favorites, v.user, ViewSimFavorites(v))
    IN  /\ v.pc = "saved"
        /\ lastView' = [done |-> TRUE, user |-> v.user,
                        plain |-> v.category = <<>> /\ v.sim_favorite = <<>>,
                        sim_requested |-> v.sim_favorite # <<>>,
                        follows |-> FALSE,
                        before |-> v.before,
                        target_date |-> target_date,
                        selected_categories |-> ViewCategories(v),
                        tag_filters |-> v.saved_filters.tags,
                        selected_sim_favorites |-> ViewSimFavorites(v),
                        interest_vectors |-> interest_vectors,
                        result |-> RankAndGroup(load_date(FileAt(target_date)),
                                                ViewCategories(v), v.saved_filters.tags,
                                                interest_vectors)]
        /\ inflight' = [inflight EXCEPT !.view.pc = "done"]
        /\ UNCHANGED <<lastCall, favorites, favPapers, userFilters, history, storeVars>>

\* save_history up to the commit of its BrowsingHistory row; a request
\* without paper_id is answered 400 at once.
HistoryInsert(u, paper_id, position, date) ==
    LET date_str == IF Truthy(date) THEN date ELSE Today
    IN  /\ inflight.history.pc = "none"
        /\ inflight' = [inflight EXCEPT !.history =
                           [pc |-> IF Truthy(paper_id) THEN "inserted" ELSE "done",
                            ignored |-> ~Truthy(paper_id),
                            user |-> u, paper_id |-> paper_id, position |-> position,
                            date_str |-> date_str]]
        /\ history' = IF Truthy(paper_id)
                      THEN [history EXCEPT ![u] =
                               [exists |-> TRUE, paper_id |-> paper_id, date |-> date_str,
                                position |-> position]]
                      ELSE history
        /\ UNCHANGED <<lastView, lastCall, favorites, favPapers, userFilters, storeVars>>

\* save_history up to `current = _load_filters(user_id)` of its _save_filters.
HistorySaveRead ==
    /\ inflight.history.pc = "inserted"
    /\ inflight' = [inflight EXCEPT !.history =
                       [f \in DOMAIN inflight.history \cup {"current"} |->
                           CASE f = "pc" -> "saving"
                             [] f = "current" -> _load_filters(userFilters, inflight.history.user)
                             [] OTHER -> inflight.history[f]]]
    /\ UNCHANGED <<lastView, lastCall, favorites, favPapers, userFilters, history, storeVars>>

\* The upsert of save_history's _save_filters, and its commit.
HistorySaveWrite ==
    LET h == inflight.history
    IN  /\ h.pc = "saving"
        /\ userFilters' = [userFilters EXCEPT ![h.user] =
                              UpsertRow(h.current, NotGiven, NotGiven, NotGiven,
                                        h.date_str, h.paper_id, Given(h.position))]
        /\ inflight' = [inflight EXCEPT !.history.pc = "done"]
        /\ UNCHANGED <<lastView, lastCall, favorites, favPapers, history, storeVars>>

NextOverlap ==
    \/ \E d \in DateParams, c \in CategoryParams, sf \in SimParams : ViewBegin(1, d, c, sf)
    \/ ViewSaveRead
    \/ ViewSaveWrite
    \/ ViewRender
    \/ \E p \in PaperParams, d \in HistoryDates : HistoryInsert(1, p, 3, d)
    \/ HistorySaveRead
    \/ HistorySaveWrite

SpecOverlap == InitOverlap /\ [][NextOverlap]_vars

\* C26: when a feed view and a save_history of one user overlap, then after
\* both have finished the saved last_date, last_paper_id and last_position
\* are those save_history wrote.
C26_HistoryWriteSurvivesView ==
    (/\ inflight.view.pc = "done"
     /\ inflight.history.pc = "done"
     /\ ~inflight.history.ignored) =>
        LET row == userFilters[inflight.history.user]
        IN  /\ row.last_date = inflight.history.date_str
            /\ row.last_paper_id = inflight.history.paper_id
            /\ row.last_position = inflight.history.position

\* Uninterrupted, the statements of _save_filters write what it writes.
UpsertRowIsSaveFilters ==
    /\ inflight.view.pc = "saving" /\ inflight.view.current = _load_filters(userFilters, 1) =>
           LET v == inflight.view
           IN  [userFilters EXCEPT ![1] =
                   UpsertRow(v.current, Given(ViewCategories(v)), Given(v.saved_filters.tags),
                             Given(ViewSimFavorites(v)), None, None, NotGiven)]
               = _save_filters(userFilters, 1, Given(ViewCategories(v)),
                               Given(v.saved_filters.tags), Given(ViewSimFavorites(v)),
                               None, None, NotGiven)
    /\ inflight.history.pc = "saving"
       /\ inflight.history.current = _load_filters(userFilters, 1) =>
           LET h == inflight.history
           IN  [userFilters EXCEPT ![1] =
                   UpsertRow(h.current, NotGiven, NotGiven, NotGiven, h.date_str, h.paper_id,
                             Given(h.position))]
               = _save_filters(userFilters, 1, NotGiven, NotGiven, NotGiven, h.date_str,
                               h.paper_id, Given(h.position))

-----------------------------------------------------------------------------
(* Properties of the reading position (SpecReading).                         *)

\* C27: save_history changes only the reading position: after it the saved
\* categories, tag lists and sim_favorites are those from before the call
\* (the empty defaults where there was no row), and the user's one
\* BrowsingHistory row holds the paper, date and position that the row of
\* UserFilters holds as last_paper_id, last_date and last_position.
C27_SaveHistoryChangesOnlyPosition ==
    lastCall.op = "save_history" =>
        LET row == userFilters[lastCall.user]
            seen == history[lastCall.user]
        IN  /\ row.exists
            /\ row.categories = lastCall.before.categories
            /\ row.tags = lastCall.before.tags
            /\ row.sim_favorites = lastCall.before.sim_favorites
            /\ seen.exists
            /\ seen.paper_id = row.last_paper_id /\ seen.paper_id = lastCall.paper_id
            /\ seen.date = row.last_date /\ seen.date = lastCall.date_str
            /\ seen.position = row.last_position /\ seen.position = lastCall.position

\* A save_history over a row with categories, a folder selection and an
\* older position.
C27_Witness ==
    /\ lastCall.op = "save_history"
    /\ lastCall.before.exists
    /\ lastCall.before.categories # <<>>
    /\ lastCall.before.sim_favorites # <<>>
    /\ Truthy(lastCall.before.last_paper_id)
    /\ lastCall.before.last_paper_id # lastCall.paper_id
    /\ lastCall.before.last_date # lastCall.date_str

\* A save_history for a user without a row.
C27_WitnessNoRow ==
    /\ lastCall.op = "save_history"
    /\ ~lastCall.before.exists

-----------------------------------------------------------------------------
(* The feed with folders that come and go: views, the settings, folders     *)
(* created by both routes, folders deleted, and a reading position.         *)

NextSelection ==
    \E u \in Requesters :
        \/ \E sf \in {<<>>, <<"3", "2", "x">>} : Index(u, None, <<>>, sf)
        \/ SettingsPost(u, <<"cs.CV">>, <<"AI">>, <<>>, <<>>)
        \/ \E n \in {"a", " c "} : CreateFavorite(u, n)
        \/ \E n \in {"", "B"} : RoomInFolders /\ AddToFavorites(u, "p5", <<>>, n)
        \/ DeleteFavorite(u, 3)
        \/ \E d \in {"2024-01-01", BadDate} : SaveHistory(u, "p2", 3, d)

SpecSelection == Init /\ [][NextSelection]_vars

\* C28: after a feed view every id of the user's saved sim_favorites is a
\* folder the user owns now (the ids of deleted folders and of other users'
\* folders are gone), and every interest vector of the view is the
\* embedding of a folder the user owns now, none that of a deleted folder.
C28_ViewKeepsOwnFoldersOnly ==
    lastView.done =>
        LET own == FavIdsOf(favorites, lastView.user)
        IN  /\ Range(userFilters[lastView.user].sim_favorites) \subseteq own
            /\ Range(lastView.selected_sim_favorites) \subseteq own
            /\ \A i \in 1..Len(lastView.interest_vectors) :
                   \E f \in own :
                       LET vec == parse_embedding(favorites[f].embedding)
                       IN  TruthyEmb(vec) /\ vec.v = lastView.interest_vectors[i]

\* A view of a user whose saved selection held a folder deleted since, with
\* its embedding, while another folder still gives a vector.
C28_Witness ==
    /\ lastView.done
    /\ \E f \in Range(lastView.before.sim_favorites) : f \notin DOMAIN favorites
    /\ userFilters[lastView.user].sim_favorites # <<>>
    /\ lastView.interest_vectors # <<>>


\* The folder a request has created or found by its name: 0 when none.
CreatedBy(call) ==
    CASE call.op = "create_favorite" -> call.id
      [] call.op = "add_to_favorites" -> call.created
      [] OTHER -> 0

\* C29: creating a folder, by create_favorite or by add_to_favorites with
\* the name of a new folder, puts its id among the saved sim_favorites, also
\* when the name is that of a folder the user has and has deselected, and
\* leaves the saved categories, tag lists, the other ids of sim_favorites
\* and the reading position as they were.
C29_CreatingSelectsTheFolder ==
    [][CreatedBy(lastCall') # 0 =>
          LET before == userFilters[lastCall'.user]
              after == userFilters'[lastCall'.user]
          IN  /\ after.exists
              /\ Range(after.sim_favorites) = Range(before.sim_favorites) \cup {CreatedBy(lastCall')}
              /\ after.categories = before.categories
              /\ after.tags = before.tags
              /\ after.last_date = before.last_date
              /\ after.last_paper_id = before.last_paper_id
              /\ after.last_position = before.last_position]_vars

\* The same for the rows whose last_date is an ISO date or none.
CreatingSelectsTheFolderIsoDate ==
    [][(CreatedBy(lastCall') # 0 /\ userFilters[lastCall'.user].last_date # BadDate) =>
          LET before == userFilters[lastCall'.user]
              after == userFilters'[lastCall'.user]
          IN  /\ after.exists
              /\ Range(after.sim_favorites) = Range(before.sim_favorites) \cup {CreatedBy(lastCall')}
              /\ after.categories = before.categories
              /\ after.tags = before.tags
              /\ after.last_date = before.last_date
              /\ after.last_paper_id = before.last_paper_id
              /\ after.last_position = before.last_position]_vars

\* A folder found by its name and selected again, the row otherwise full.
CreatedWhileDeselected ==
    /\ lastCall.op \in {"create_favorite", "add_to_favorites"}
    /\ CreatedBy(lastCall) # 0
    /\ userFilters[lastCall.user].categories # <<>>
    /\ userFilters[lastCall.user].tags.whitelist # <<>>
    /\ Truthy(userFilters[lastCall.user].last_paper_id)
    /\ Len(userFilters[lastCall.user].sim_favorites) > 1

-----------------------------------------------------------------------------
(* The same requests on a database that init_db has just made: no folder,   *)
(* no row, every folder there is made by a request.                          *)

InitFresh ==
    /\ store = FeedStore
    /\ lastMerge = NoMerge
    /\ favorites = NewDatabase.favorites
    /\ favPapers = NewDatabase.favPapers
    /\ userFilters = [u \in Users |-> NoFilterRow]
    /\ history = [u \in Users |-> NoHistoryRow]
    /\ lastView = NoView
    /\ lastCall = NoCall
    /\ inflight = NoRequests

SpecFresh == InitFresh /\ [][NextSelection]_vars

\* C30: in every state the requests reach from a new database, a user who
\* owns a folder has a row of UserFilters; so a view that finds no row, the
\* only one that takes all the user's folders by default, is the view of a
\* user who owns no folder.
C30_FolderOwnersHaveARecord ==
    /\ \A u \in Users : FavIdsOf(favorites, u) # {} => userFilters[u].exists
    /\ (lastView.done /\ ~lastView.before.exists) =>
           /\ FavIdsOf(favorites, lastView.user) = {}
           /\ lastView.selected_sim_favorites = <<>>

\* The user's only folder, made by add_to_favorites, and the row made with it.
C30_Witness ==
    /\ lastCall.op = "add_to_favorites"
    /\ lastCall.created # 0
    /\ FavIdsOf(favorites, lastCall.user) = {lastCall.created}
    /\ userFilters[lastCall.user].sim_favorites = <<lastCall.created>>

\* A user with folders whose row still names a folder deleted since.
OwnerAfterDelete ==
    \E u \in Users :
        /\ FavIdsOf(favorites, u) # {}
        /\ \E f \in Range(userFilters[u].sim_favorites) : f \notin DOMAIN favorites

\* A view that finds no row.
ViewWithoutRecord == lastView.done /\ ~lastView.before.exists
====
